---- MODULE Spec2Model ----
(***************************************************************************)
(* A model of the unifi-time-machine pipeline:                             *)
(*   capture -> frame store -> job queue -> worker -> video assembler.     *)
(*                                                                         *)
(* Time is counted in ticks.  A frame path                                 *)
(* snapshots/YYYY-MM/DD/HH/YYYY-MM-DD-HH-MM-SS.jpg is represented by the   *)
(* instant its name encodes, so the lexicographic order of paths is the    *)
(* order of the integers; the empty path "" is EmptyPath.                  *)
(***************************************************************************)
EXTENDS Integers, Sequences, FiniteSets, TLC

(***************************************************************************)
(* Bounds of the model.                                                    *)
(***************************************************************************)
MaxTime == 3          \* the clock stops here
HourLen == 2          \* ticks per hour (prefix YYYY-MM-DD-HH)
HoursPerDay == 2      \* hours per calendar day (prefix YYYY-MM-DD)
WeekLen == 2          \* Duration of 1_week, in ticks
MonthLen == 3         \* Duration of 1_month, in ticks
YearLen == 4          \* Duration of 1_year, in ticks
RetentionLen == 3     \* SnapshotRetentionDays, in ticks
MaxKills == 1         \* process kills per behaviour
MaxIoFails == 1       \* failed encoder runs / file operations per behaviour

DayLen == HoursPerDay * HourLen

(***************************************************************************)
(* Instants.  File names carry whole seconds (ticks); time.Now() has a     *)
(* finer resolution and lies strictly inside its second.  Instants and     *)
(* durations are therefore counted in units of 1/Res tick.                 *)
(***************************************************************************)
Res == 2
Instant(tick) == Res * tick
TimeNow(clock) == Res * clock + 1

EmptyPath == -1

(***************************************************************************)
(* The state: the files of the assembler and the position of its job, the  *)
(* table of jobs and the goroutines around it, the stores the retention    *)
(* sweeps work on.                                                         *)
(***************************************************************************)
VARIABLES
  now,          \* wall clock
  frames,       \* the frame store: instants of the snapshot files
  tl,           \* the timelapse name the assemble jobs are for
  artifact,     \* timelapse_<name>.webm
  sidecar,      \* timelapse_<name>.last_snapshot.txt (EmptyPath: absent)
  archives,     \* timelapse_<name>_<timestamp>.webm, as [ts, data]
  tempVideo,    \* temp_timelapse_<name>.webm
  tempSegment,  \* temp_segment_<name>_<i>.webm (EmptyPath: absent)
  tempConcat,   \* temp_concat_video_<name>_<i>.webm
  apc,          \* position of the running assemble job
  selF,         \* snapshotsForTimelapse of the job
  startIdx,     \* startIndex of the job
  loopI,        \* index of the append loop
  h,            \* what the job saw when it started, and what it did
  kills,        \* process kills so far
  ioFails       \* failed steps so far

VARIABLES
  jobs,         \* the rows of table jobs
  nextId,       \* the next value of the AUTOINCREMENT id
  wpc,          \* position of each worker goroutine in the loop of Start
  wjob,         \* the job each worker fetched, and the error of its body
  epos,         \* position of each running EnqueueTimelapseJobs in its list
  enqueues,     \* runs of EnqueueTimelapseJobs each goroutine has started
  calls         \* the calls of jobs.CreateJob in the last run of each goroutine

VARIABLES
  dataDir,      \* the videos of DataDir the video sweep looks at, by name
  gallery,      \* gallery/YYYY-MM-DD-HH.jpg, by name
  sw            \* the job the worker ran last, when it was a retention sweep:
                \* what it found and what it did

VARIABLES
  slotData,     \* the bytes the capture task wrote last to each gallery slot
  latest,       \* the bytes of latest_snapshot.jpg (NoBytes: absent)
  trunc,        \* the instants whose frame file got only a part of the image
  cap,          \* the last run of TakeSnapshot: how far it got, and when
  configured,   \* UFPHost, UFPAPIKey and TargetCameraID are all set
  capFaults     \* runs of TakeSnapshot in which a request or a write failed

VARIABLES
  links,        \* the rows of table shared_links
  minted,       \* the calls of database.CreateShareLink that returned a token
  shareCfg,     \* DataDir, ShareLinkExpiryHours and the zone of the local clock
  served,       \* the last request to /share or /public/:token, or the last
                \* share sweep: what it found and how it was answered
  authed        \* the last request to a route of SetupRouter, and how far it got

VARIABLES
  videoStatus,  \* the monolithic program's videoStatus: IsRunning, LastRun, Error
  gen           \* where each goroutine of the monolithic program that calls
                \* generateAllTimelapses is

(***************************************************************************)
(* Files.  data is the sequence of frames a video holds; a zero-byte file  *)
(* exists and holds nothing; a file an interrupted encoder left behind is  *)
(* not complete.                                                           *)
(***************************************************************************)
NoFile == [exists |-> FALSE, data |-> <<>>, complete |-> FALSE]
VideoFile(d) == [exists |-> TRUE, data |-> d, complete |-> TRUE]
PartialFile == [exists |-> TRUE, data |-> <<>>, complete |-> FALSE]

FileExists(f) == f.exists
IsFileEmpty(f) == (~f.exists) \/ Len(f.data) = 0

Range(s) == {s[i] : i \in 1..Len(s)}
Last(s) == s[Len(s)]
Count(x, s) == Cardinality({i \in 1..Len(s) : s[i] = x})

RECURSIVE SortedSeq(_)
SortedSeq(S) ==
  IF S = {} THEN <<>>
  ELSE LET m == CHOOSE x \in S : \A y \in S : x <= y
       IN <<m>> \o SortedSeq(S \ {m})

\* util.GetSnapshotFiles: every .jpg under the snapshot tree, sorted; a failed
\* walk yields no file (see GenerateSingleTimelapse).
GetSnapshotFiles(fs) == SortedSeq(fs)

(***************************************************************************)
(* Timelapse names and configurations.  A name is [base, date]: base       *)
(* "24_hour_" with the date of the day, or the name of a static spec.      *)
(***************************************************************************)
DailyName(d) == [base |-> "24_hour_", date |-> d]
StaticName(n) == [base |-> n, date |-> 0]

TimelapseConfigsData ==
  << [Name |-> StaticName("1_week"), Duration |-> Instant(WeekLen), FramePattern |-> "hourly"],
     [Name |-> StaticName("1_month"), Duration |-> Instant(MonthLen), FramePattern |-> "daily"],
     [Name |-> StaticName("1_year"), Duration |-> Instant(YearLen), FramePattern |-> "daily"] >>

NoConfig == [Name |-> StaticName(""), Duration |-> 0, FramePattern |-> ""]

\* GenerateSingleTimelapse, resolution of the name into (cfg, targetDate).
ResolveConfig(name, clock) ==
  IF name.base = "24_hour_"
  THEN [ok |-> name.date >= 0,
        cfg |-> [Name |-> name, Duration |-> Instant(DayLen), FramePattern |-> "all"],
        target |-> Instant(name.date * DayLen)]
  ELSE LET hits == {i \in 1..Len(TimelapseConfigsData) : TimelapseConfigsData[i].Name = name}
       IN IF hits = {}
          THEN [ok |-> FALSE, cfg |-> NoConfig, target |-> TimeNow(clock)]
          ELSE [ok |-> TRUE,
                cfg |-> TimelapseConfigsData[CHOOSE i \in hits : \A j \in hits : i <= j],
                target |-> TimeNow(clock)]

(***************************************************************************)
(* The frame selector.                                                     *)
(***************************************************************************)
\* a file of the snapshot tree whose name is not YYYY-MM-DD-HH-MM-SS.jpg, such
\* as malformed-file.jpg; the code drops it before it looks at any order
MalformedFile == -2

\* strings.Split gives six parts and time.Parse accepts them
Parses(f) == f >= 0

\* time.Parse of the name of a snapshot file
FileTime(f) == Instant(f)
Truncate(t, unit) == (t \div unit) * unit

\* a pass that keeps every file
Stride_keepsAll(files, unit, lastKey) == files

\* the single pass that keeps a file when its key differs from the last kept key
RECURSIVE Stride(_, _, _)
Stride(files, unit, lastKey) ==
  IF files = <<>> THEN <<>>
  ELSE LET k == Head(files) \div unit
       IN IF k # lastKey
          THEN <<Head(files)>> \o Stride(Tail(files), unit, k)
          ELSE Stride(Tail(files), unit, lastKey)

\* a selector whose window is closed at its end
filterSnapshots_closedWindow(allFiles, config, targetTime) ==
  LET windowStart == IF config.Name.base = "24_hour_"
                     THEN Truncate(targetTime, Instant(DayLen))
                     ELSE targetTime - config.Duration
      windowEnd == IF config.Name.base = "24_hour_"
                   THEN Truncate(targetTime, Instant(DayLen)) + Instant(DayLen)
                   ELSE targetTime
      InWindow(f) == Parses(f) /\ (~(FileTime(f) < windowStart)) /\ (~(FileTime(f) > windowEnd))
      recentFiles == SelectSeq(allFiles, InWindow)
      filtered == CASE config.FramePattern = "all" -> recentFiles
                    [] config.FramePattern = "hourly" -> Stride(recentFiles, HourLen, -1)
                    [] config.FramePattern = "daily" -> Stride(recentFiles, DayLen, -1)
                    [] OTHER -> <<>>
  IN SortSeq(filtered, LAMBDA a, b : a < b)

\* a selector that keeps lastHour and lastDay from one call to the next
filterSnapshots_keepsLastKey(allFiles, config, targetTime) ==
  LET windowStart == IF config.Name.base = "24_hour_"
                     THEN Truncate(targetTime, Instant(DayLen))
                     ELSE targetTime - config.Duration
      windowEnd == IF config.Name.base = "24_hour_"
                   THEN Truncate(targetTime, Instant(DayLen)) + Instant(DayLen)
                   ELSE targetTime
      LastKey(unit) == IF selF = <<>> THEN -1 ELSE selF[Len(selF)] \div unit
      InWindow(f) == Parses(f) /\ (~(FileTime(f) < windowStart)) /\ FileTime(f) < windowEnd
      recentFiles == SelectSeq(allFiles, InWindow)
      filtered == CASE config.FramePattern = "all" -> recentFiles
                    [] config.FramePattern = "hourly" -> Stride(recentFiles, HourLen, LastKey(HourLen))
                    [] config.FramePattern = "daily" -> Stride(recentFiles, DayLen, LastKey(DayLen))
                    [] OTHER -> <<>>
  IN SortSeq(filtered, LAMBDA a, b : a < b)

\* filterSnapshots: the window, the stride, the final sort.
filterSnapshots(allFiles, config, targetTime) ==
  LET windowStart == IF config.Name.base = "24_hour_"
                     THEN Truncate(targetTime, Instant(DayLen))
                     ELSE targetTime - config.Duration
      windowEnd == IF config.Name.base = "24_hour_"
                   THEN Truncate(targetTime, Instant(DayLen)) + Instant(DayLen)
                   ELSE targetTime
      InWindow(f) == Parses(f) /\ (~(FileTime(f) < windowStart)) /\ FileTime(f) < windowEnd
      recentFiles == SelectSeq(allFiles, InWindow)
      filtered == CASE config.FramePattern = "all" -> recentFiles
                    [] config.FramePattern = "hourly" -> Stride(recentFiles, HourLen, -1)
                    [] config.FramePattern = "daily" -> Stride(recentFiles, DayLen, -1)
                    [] OTHER -> <<>>
  IN SortSeq(filtered, LAMBDA a, b : a < b)

\* a search that starts one frame too late
StartIndex_skip(sel, lastAppended) ==
  IF lastAppended = EmptyPath THEN 0
  ELSE LET hits == {i \in 1..Len(sel) : sel[i] = lastAppended}
       IN IF hits = {} THEN 0 ELSE (CHOOSE i \in hits : \A j \in hits : i <= j) + 1

\* a search that takes a tracked frame it does not find for the first frame
StartIndex_notFoundIsFirst(sel, lastAppended) ==
  IF lastAppended = EmptyPath THEN 0
  ELSE LET hits == {i \in 1..Len(sel) : sel[i] = lastAppended}
       IN IF hits = {} THEN 1 ELSE CHOOSE i \in hits : \A j \in hits : i <= j

\* GenerateSingleTimelapse, the search for the tracked snapshot.
StartIndex(sel, lastAppended) ==
  IF lastAppended = EmptyPath THEN 0
  ELSE LET hits == {i \in 1..Len(sel) : sel[i] = lastAppended}
       IN IF hits = {} THEN 0 ELSE CHOOSE i \in hits : \A j \in hits : i <= j

\* a choice that takes a zero-byte video for a video
ChooseMode_noSizeCheck(allSnapshots, sel, video, startIndex) ==
  IF Len(allSnapshots) = 0 \/ Len(sel) = 0 THEN "empty"
  ELSE IF (~FileExists(video)) \/ startIndex = 0 THEN "full"
  ELSE IF startIndex < Len(sel) THEN "append"
  ELSE "noop"

\* a choice that does not return on an empty selector output
ChooseMode_noEmptyReturn(allSnapshots, sel, video, startIndex) ==
  IF (~FileExists(video)) \/ IsFileEmpty(video) \/ startIndex = 0 THEN "full"
  ELSE IF startIndex < Len(sel) THEN "append"
  ELSE "noop"

\* a choice that appends to the video when the tracked frame is not found
ChooseMode_appendsWhenNotFound(allSnapshots, sel, video, startIndex) ==
  IF Len(allSnapshots) = 0 \/ Len(sel) = 0 THEN "empty"
  ELSE IF (~FileExists(video)) \/ IsFileEmpty(video) THEN "full"
  ELSE IF startIndex < Len(sel) THEN "append"
  ELSE "noop"

\* GenerateSingleTimelapse, what the job does with the selector output.
ChooseMode(allSnapshots, sel, video, startIndex) ==
  IF Len(allSnapshots) = 0 \/ Len(sel) = 0 THEN "empty"
  ELSE IF (~FileExists(video)) \/ IsFileEmpty(video) \/ startIndex = 0 THEN "full"
  ELSE IF startIndex < Len(sel) THEN "append"
  ELSE "noop"

\* a tracker that gets the first frame of the video
TrackerAfterRegen_first(sel) == sel[1]

\* GenerateSingleTimelapse, the path written to the tracker after a full regeneration.
TrackerAfterRegen(sel) == sel[Len(sel)]

\* a tracker that gets the last frame of the job before it is appended
TrackerAfterAppend_last(sel, start, i) == sel[Len(sel)]

\* GenerateSingleTimelapse, the path written to the tracker in round i of the
\* append loop: newSnapshots[i], where newSnapshots is sel[start:].
TrackerAfterAppend(sel, start, i) == sel[start + i + 1]

\* readLastAppendedSnapshot: a missing tracker reads as ""; the path of a
\* snapshot file has no blank at either end for TrimSpace to remove.
readLastAppendedSnapshot(tracker) == tracker

asmVars == <<now, frames, tl, artifact, sidecar, archives, tempVideo,
             tempSegment, tempConcat, apc, selF, startIdx, loopI, h, kills, ioFails>>

qVars == <<jobs, nextId, wpc, wjob, epos, enqueues, calls>>

swVars == <<dataDir, gallery, sw>>

capVars == <<slotData, latest, trunc, cap, configured, capFaults>>

webVars == <<links, minted, shareCfg, served, authed>>

monoVars == <<videoStatus, gen>>

vars == <<asmVars, qVars, swVars, capVars, webVars, monoVars>>

\* main: go worker.Start() is called once.
NumWorkers == 1

\* a second go worker.Start()
Workers_two == 1..(NumWorkers + 1)

Workers == 1..NumWorkers

\* the goroutines that run EnqueueTimelapseJobs: the scheduler loop, and the
\* one HandleForceGenerate starts
Enqueuers == {"scheduler", "force"}

NoJob ==
  [id |-> 0, job_type |-> "", payload |-> StaticName(""), err |-> FALSE, ran |-> "none"]

\* the queue of a process that has just started on an empty table
QueueAtRest ==
  /\ jobs = {}
  /\ nextId = 1
  /\ wpc = [w \in Workers |-> "poll"]
  /\ wjob = [w \in Workers |-> NoJob]
  /\ epos = [e \in Enqueuers |-> 0]
  /\ enqueues = [e \in Enqueuers |-> 0]
  /\ calls = [e \in Enqueuers |-> <<>>]

\* aborted: "no", "read" (the directory could not be listed), "panic"
NoSweep ==
  [op |-> "none", at |-> 0, before |-> {}, failed |-> {}, skipped |-> {}, aborted |-> "no"]

\* no video and no gallery slot on disk, no sweep run yet
SweepAtRest ==
  /\ dataDir = {}
  /\ gallery = {}
  /\ sw = NoSweep

\* what the camera answers the request with: 200 and an image, an error of
\* the transport, a status other than 200
Responses == {"ok", "error", "status"}

\* a request that is answered whatever comes back
Answered_any(resp) == TRUE

\* client.Do returned no error and the status is 200
Answered(resp) == resp = "ok"

\* how a write ends: done; failed before the file was created or truncated;
\* failed after, with a part of the bytes in the file
CopyResults == {"ok", "untouched", "truncated"}

\* the image the camera serves at an instant: no two requests get the same
Image(t) == t

\* no file
NoBytes == -1

\* a part of an image
PartialBytes == -3

\* a copy that leaves the destination as it was
CopyFile_keepsDst(src, dst, result) == dst

\* CopyFile(src, dst): os.Open, os.Create, io.Copy; the bytes of dst after it
CopyFile(src, dst, result) ==
  CASE result = "ok" -> src
    [] result = "untouched" -> dst
    [] OTHER -> PartialBytes

\* the bytes of a frame of the store
FrameBytes(f) == IF f \in trunc THEN PartialBytes ELSE Image(f)

\* capture ticks that may go wrong in one behaviour
MaxCapFaults == 1

NoCapture ==
  [at |-> 0, outcome |-> "none", save |-> "ok", gal |-> "ok", lat |-> "ok",
   slotFound |-> FALSE]

\* a capture task that has not run yet, is configured, and whose requests
\* and writes all succeed
CaptureAtRest ==
  /\ slotData = [g \in {} |-> NoBytes]
  /\ latest = NoBytes
  /\ trunc = {}
  /\ cap = NoCapture
  /\ configured = TRUE
  /\ capFaults = MaxCapFaults

(***************************************************************************)
(* Share links.  A row of shared_links is [token, file_path, expires_at].  *)
(* The driver binds a time.Time as text, the wall clock of the value's own *)
(* zone followed by the offset of that zone, and a DATETIME column is      *)
(* read back by parsing that text; a comparison inside a statement is a    *)
(* comparison of texts.  Statements that fail are not modelled: the        *)
(* functions return the error and the handlers answer 500.                 *)
(***************************************************************************)
MaxLinks == 2               \* rows CreateShareLink inserts in a run

\* the zone of the process: "UTC" keeps one offset; in "DST" the clocks go
\* back by an hour at FallBack
Zones == {"UTC", "DST"}
Hour == Instant(HourLen)
FallBack == Hour
Offset(inst, zone) == IF zone = "DST" /\ inst < FallBack THEN Hour ELSE 0

\* time.Time as the driver writes it, and as Scan reads it
FormatTime(inst, zone) == [wall |-> inst + Offset(inst, zone), off |-> Offset(inst, zone)]
ParseTime(text) == text.wall - text.off

\* the order of two texts: the digits of the wall clock, then of the offset
TextLess(a, b) == a.wall < b.wall \/ (a.wall = b.wall /\ a.off < b.off)

\* time.Now().AddDate(100, 0, 0)
HundredYears == 100 * YearLen

ExpiresAt_alwaysAdds(clock, duration) == TimeNow(clock) + duration

\* CreateShareLink: the expiry of a new row
ExpiresAt(clock, duration) ==
  IF duration > 0 THEN TimeNow(clock) + duration
  ELSE TimeNow(clock) + Instant(HundredYears)

\* CreateShareLink: the table after the INSERT
CreateShareLink(rows, token, filePath, duration, clock, zone) ==
  rows \cup {[token |-> token, file_path |-> filePath,
              expires_at |-> FormatTime(ExpiresAt(clock, duration), zone)]}

\* HandleShareLink: the duration it passes to CreateShareLink
Expiry(hours) == IF hours > 0 THEN Hour * hours ELSE 0

NoPath == [abs |-> FALSE, parts |-> <<"">>]     \* the empty string

\* GetSharedFilePath: "" when no row has the token or the row has expired
GetSharedFilePath(rows, token, clock) ==
  IF \A r \in rows : r.token # token THEN NoPath
  ELSE LET r == CHOOSE x \in rows : x.token = token
       IN IF TimeNow(clock) > ParseTime(r.expires_at) THEN NoPath ELSE r.file_path

\* DeleteExpiredShareLinks: the rows the DELETE removes
Swept(rows, clock, zone) ==
  {r \in rows : TextLess(r.expires_at, FormatTime(TimeNow(clock), zone))}

(***************************************************************************)
(* Paths.  A path is [abs, parts]: whether it starts at the root, and its  *)
(* elements; the relative path without elements is ".".                    *)
(***************************************************************************)
Path(abs, parts) == [abs |-> abs, parts |-> parts]

RECURSIVE CleanParts(_, _, _)
\* filepath.Clean: "." is dropped, an element and the ".." after it are
\* dropped, ".." is dropped at the root and kept at the head of a relative path
CleanParts(abs, done, rest) ==
  IF rest = <<>> THEN done
  ELSE LET x == Head(rest)
       IN IF x = "." THEN CleanParts(abs, done, Tail(rest))
          ELSE IF x # ".." THEN CleanParts(abs, Append(done, x), Tail(rest))
          ELSE IF done # <<>> /\ Last(done) # ".."
                 THEN CleanParts(abs, SubSeq(done, 1, Len(done) - 1), Tail(rest))
          ELSE IF abs THEN CleanParts(abs, done, Tail(rest))
          ELSE CleanParts(abs, Append(done, ".."), Tail(rest))

Clean(p) == Path(p.abs, CleanParts(p.abs, <<>>, p.parts))

\* filepath.Base: the last element; "/" for the root
Base(p) == IF p.parts = <<>> THEN p ELSE Path(FALSE, <<Last(p.parts)>>)

\* filepath.Join: the elements one after the other, cleaned
Join(dir, elem) == Clean(Path(dir.abs, dir.parts \o elem.parts))

\* WORKDIR of the image
Cwd == Path(TRUE, <<"app">>)

\* filepath.Abs
Abs(p) == IF p.abs THEN Clean(p) ELSE Join(Cwd, p)

\* the pairs of different names of which the first begins the second
NamePrefixes == {<<"data", "data2">>}

\* strings.HasPrefix on the texts of two paths
HasPrefix(s, prefix) ==
  LET n == Len(prefix.parts)
  IN /\ s.abs = prefix.abs
     /\ n <= Len(s.parts)
     /\ \A i \in 1..(n - 1) : s.parts[i] = prefix.parts[i]
     /\ n > 0 => \/ s.parts[n] = prefix.parts[n]
                 \/ <<prefix.parts[n], s.parts[n]>> \in NamePrefixes

ResolveInDataDir_noBase(DataDir, filePath) == Abs(Join(DataDir, filePath))

\* HandleShareLink, HandlePublicLink: the path the handler checks and serves
ResolveInDataDir(DataDir, filePath) == Abs(Join(DataDir, Base(filePath)))

\* the values of DATA_DIR: the volume of the image, and the default
DataDirs == {Path(TRUE, <<"app", "data">>), Path(FALSE, <<"data">>)}

\* the files and the directories of the machine
Files ==
  { Path(TRUE, <<"app", "data", "timelapse.webm">>),
    Path(TRUE, <<"app", "data2", "secret.webm">>),
    Path(TRUE, <<"etc", "passwd">>) }
Dirs ==
  { Path(TRUE, <<>>), Path(TRUE, <<"app">>), Path(TRUE, <<"app", "data">>),
    Path(TRUE, <<"app", "data2">>), Path(TRUE, <<"etc">>) }

\* the values of form field filePath
SharePaths ==
  { Path(FALSE, <<"timelapse.webm">>),
    Path(TRUE, <<"data", "timelapse.webm">>),
    Path(TRUE, <<"etc", "passwd">>),
    Path(FALSE, <<"..", "data2", "secret.webm">>),
    Path(TRUE, <<"app", "data", "..">>),
    Path(TRUE, <<>>),
    NoPath }

ExpiryHours == {-1, 0, 1}

NoServed ==
  [handler |-> "none", at |-> 0, token |-> 0, filePath |-> NoPath, status |-> 0,
   file |-> NoPath, rows |-> {}]

NoToken == [kind |-> "none", key |-> "", exp |-> 0, is_admin |-> FALSE]

NoAuthed == [group |-> "none", at |-> 0, token |-> NoToken, status |-> 0, ran |-> FALSE]

\* a server that has answered no request yet, on an empty table
WebAtRest ==
  /\ links = {}
  /\ minted = {}
  /\ shareCfg = [DataDir |-> Path(TRUE, <<"app", "data">>), ShareLinkExpiryHours |-> 1,
                 zone |-> "UTC"]
  /\ served = NoServed
  /\ authed = NoAuthed

\* a LastRun that is nil
NoTime == -1

\* the goroutines of the monolithic program that call generateAllTimelapses:
\* the scheduler loop, and the ones handleForceGenerate starts
MaxForce == 2
Forced == {"force" \o ToString(i) : i \in 1..MaxForce}
Goroutines == {"scheduler"} \cup Forced

\* the monolithic program after main has started the scheduler loop: no run,
\* no goroutine of a request
MonoAtRest ==
  /\ videoStatus = [IsRunning |-> FALSE, LastRun |-> NoTime, Error |-> ""]
  /\ gen = [g \in Goroutines |-> IF g = "scheduler" THEN "check" ELSE "none"]

AsmNames == {DailyName(0), StaticName("1_week"), StaticName("1_month")}

NoHistory ==
  [tail0 |-> EmptyPath, art0 |-> NoFile, arch0 |-> {}, frames0 |-> {}, t0 |-> 0,
   mode |-> "none", result |-> "none", enc |-> 0, writes |-> 0, lost |-> FALSE,
   succ |-> FALSE]

InitAsm ==
  /\ now = 0
  /\ frames = {}
  /\ tl \in AsmNames
  /\ artifact = NoFile
  /\ sidecar = EmptyPath
  /\ archives = {}
  /\ tempVideo = NoFile
  /\ tempSegment = EmptyPath
  /\ tempConcat = NoFile
  /\ apc = "idle"
  /\ selF = <<>>
  /\ startIdx = 0
  /\ loopI = 0
  /\ h = NoHistory
  /\ kills = 0
  /\ ioFails = 0
  /\ QueueAtRest
  /\ SweepAtRest
  /\ CaptureAtRest
  /\ WebAtRest
  /\ MonoAtRest

\* a step may fail while the budget of failures lasts
Outcome(ok) == ok \/ ioFails < MaxIoFails
Failed(ok) == IF ok THEN ioFails ELSE ioFails + 1

(***************************************************************************)
(* The environment of the assembler: the clock, and the capture task.      *)
(***************************************************************************)
Tick ==
  /\ now < MaxTime
  /\ now' = now + 1
  /\ UNCHANGED <<frames, tl, artifact, sidecar, archives, tempVideo, tempSegment,
                 tempConcat, apc, selF, startIdx, loopI, h, kills, ioFails, qVars, swVars, capVars, webVars, monoVars>>

\* TakeSnapshot.  Without credentials, or when the request fails or is not
\* answered 200, it returns before any write.  The frame is stored under the
\* name of the current second: when the directory or the file cannot be
\* created nothing is written, when the body cannot be copied to the end the
\* file stays with a part of it; both return.  A stored frame is copied to
\* the gallery slot of its hour when FileExists finds none, and then over
\* latest_snapshot.jpg; a failed copy is logged.
TakeSnapshot ==
  /\ now \notin frames
  /\ \E resp \in {r \in Responses : configured \/ r = "ok"} :
     \E save \in {c \in CopyResults : (configured /\ Answered(resp)) \/ c = "ok"} :
     \E gal \in {c \in CopyResults : capFaults < MaxCapFaults \/ c = "ok"} :
     \E lat \in {c \in CopyResults : capFaults < MaxCapFaults \/ c = "ok"} :
       LET requested == configured
           stored == requested /\ Answered(resp) /\ save = "ok"
           slot == now \div HourLen
           copiesSlot == stored /\ slot \notin gallery
           faults == (IF requested /\ resp # "ok" THEN 1 ELSE 0)
                       + (IF save # "ok" THEN 1 ELSE 0)
                       + (IF gal # "ok" THEN 1 ELSE 0) + (IF lat # "ok" THEN 1 ELSE 0)
       IN /\ (~requested) => resp = "ok"
          /\ (~(requested /\ Answered(resp))) => save = "ok"
          /\ (~copiesSlot) => gal = "ok"
          /\ (~stored) => lat = "ok"
          /\ capFaults + faults <= MaxCapFaults
          /\ capFaults' = IF faults > 0 THEN capFaults + faults ELSE capFaults
          /\ frames' = IF requested /\ Answered(resp) /\ save # "untouched"
                        THEN frames \cup {now} ELSE frames
          /\ trunc' = IF requested /\ Answered(resp) /\ save = "truncated"
                       THEN trunc \cup {now} ELSE trunc
          /\ gallery' = IF copiesSlot /\ gal # "untouched"
                         THEN gallery \cup {slot} ELSE gallery
          /\ slotData' = IF copiesSlot /\ gal # "untouched"
                          THEN [g \in DOMAIN slotData \cup {slot} |->
                                  IF g = slot THEN CopyFile(Image(now), NoBytes, gal)
                                  ELSE slotData[g]]
                          ELSE slotData
          /\ latest' = IF stored THEN CopyFile(Image(now), latest, lat) ELSE latest
          /\ cap' = [at |-> now,
                     outcome |-> IF ~requested THEN "unconfigured"
                                 ELSE IF resp # "ok" THEN resp
                                 ELSE IF save # "ok" THEN "unsaved" ELSE "saved",
                     save |-> save, gal |-> gal, lat |-> lat,
                     slotFound |-> slot \in gallery]
  /\ UNCHANGED <<now, tl, artifact, sidecar, archives, tempVideo, tempSegment,
                 tempConcat, apc, selF, startIdx, loopI, h, kills, ioFails, qVars,
                 dataDir, sw, configured, webVars, monoVars>>

(***************************************************************************)
(* The capture task beside the assembler: TakeSnapshot in the two steps    *)
(* another goroutine can see, the file created and the body copied.        *)
(***************************************************************************)
\* TakeSnapshot up to os.Create, with credentials and a request answered 200:
\* the frame file of the current second exists and holds nothing yet.
CreateSnapshotFile ==
  /\ configured
  /\ cap.outcome # "writing"
  /\ now \notin frames
  /\ frames' = frames \cup {now}
  /\ trunc' = trunc \cup {now}
  /\ cap' = [at |-> now, outcome |-> "writing", save |-> "ok", gal |-> "ok",
             lat |-> "ok", slotFound |-> (now \div HourLen) \in gallery]
  /\ UNCHANGED <<now, tl, artifact, sidecar, archives, tempVideo, tempSegment,
                 tempConcat, apc, selF, startIdx, loopI, h, kills, ioFails, qVars,
                 dataDir, sw, gallery, slotData, latest, configured, capFaults, webVars, monoVars>>

\* TakeSnapshot from io.Copy on: the body is copied into the frame file, to
\* the end or not; a frame copied to the end is copied to the gallery slot of
\* its hour when FileExists finds none, and then over latest_snapshot.jpg.
CopyBody ==
  /\ cap.outcome = "writing"
  /\ \E save \in {"ok", "truncated"} : \E gal \in CopyResults : \E lat \in CopyResults :
       LET f == cap.at
           stored == save = "ok"
           slot == f \div HourLen
           copiesSlot == stored /\ slot \notin gallery
           faults == (IF save # "ok" THEN 1 ELSE 0)
                       + (IF gal # "ok" THEN 1 ELSE 0) + (IF lat # "ok" THEN 1 ELSE 0)
       IN /\ (~copiesSlot) => gal = "ok"
          /\ (~stored) => lat = "ok"
          /\ capFaults + faults <= MaxCapFaults
          /\ capFaults' = capFaults + faults
          /\ trunc' = IF stored THEN trunc \ {f} ELSE trunc
          /\ gallery' = IF copiesSlot /\ gal # "untouched"
                         THEN gallery \cup {slot} ELSE gallery
          /\ slotData' = IF copiesSlot /\ gal # "untouched"
                          THEN [g \in DOMAIN slotData \cup {slot} |->
                                  IF g = slot THEN CopyFile(Image(f), NoBytes, gal)
                                  ELSE slotData[g]]
                          ELSE slotData
          /\ latest' = IF stored THEN CopyFile(Image(f), latest, lat) ELSE latest
          /\ cap' = [at |-> f, outcome |-> IF stored THEN "saved" ELSE "unsaved",
                     save |-> save, gal |-> gal, lat |-> lat,
                     slotFound |-> slot \in gallery]
  /\ UNCHANGED <<now, frames, tl, artifact, sidecar, archives, tempVideo, tempSegment,
                 tempConcat, apc, selF, startIdx, loopI, h, kills, ioFails, qVars,
                 dataDir, sw, configured, webVars, monoVars>>

(***************************************************************************)
(* GenerateSingleTimelapse, up to the choice of what to do.                *)
(***************************************************************************)
\* Each value the function computes is bound once, where the code assigns it.
GenerateSingleTimelapse ==
  /\ apc = "idle"
  /\ \E walkok, rdok \in BOOLEAN :
     \E r \in {ResolveConfig(tl, now)} :
     \E allSnapshots \in {IF walkok THEN GetSnapshotFiles(frames) ELSE <<>>} :
     \E sel \in {IF r.ok THEN filterSnapshots(allSnapshots, r.cfg, r.target) ELSE <<>>} :
     \E lastAppended \in {IF rdok THEN readLastAppendedSnapshot(sidecar) ELSE EmptyPath} :
     \E si \in {StartIndex(sel, lastAppended)} :
     \E mode \in {IF r.ok THEN ChooseMode(allSnapshots, sel, artifact, si) ELSE "invalid"} :
       LET reads == r.ok /\ Len(allSnapshots) > 0 /\ Len(sel) > 0
           failures == (IF walkok THEN 0 ELSE 1) + (IF rdok THEN 0 ELSE 1)
       IN /\ (r.ok \/ walkok)
          /\ (reads \/ rdok)
          /\ ioFails + failures <= MaxIoFails
          /\ ioFails' = ioFails + failures
          /\ selF' = sel
          /\ startIdx' = si
          /\ loopI' = 0
          /\ apc' = CASE mode = "full" -> "regen_encode"
                      [] mode = "append" -> "append_segment"
                      [] OTHER -> "idle"
          /\ h' = [tail0 |-> sidecar, art0 |-> artifact, arch0 |-> archives,
                   frames0 |-> frames, t0 |-> now, mode |-> mode,
                   result |-> CASE mode = "invalid" -> "err"
                                [] mode \in {"empty", "noop"} -> "ok"
                                [] OTHER -> "running",
                   enc |-> 0, writes |-> 0, lost |-> FALSE,
                   succ |-> (h.result = "ok" /\ h.frames0 = frames)]
  /\ sw' = NoSweep
  /\ UNCHANGED <<now, frames, tl, artifact, sidecar, archives, tempVideo,
                 tempSegment, tempConcat, kills, qVars, dataDir, gallery, capVars, webVars, monoVars>>

(***************************************************************************)
(* Full regeneration.                                                      *)
(***************************************************************************)
\* regenerateFullTimelapse: the image list and the encoder run into temp_<out>.
regenerateFullTimelapse ==
  /\ apc = "regen_encode"
  /\ \E ok \in BOOLEAN :
       /\ Outcome(ok)
       /\ ioFails' = Failed(ok)
       /\ IF ok
          THEN /\ tempVideo' = VideoFile(selF)
               /\ apc' = "regen_archive"
               /\ h' = [h EXCEPT !.enc = @ + 1, !.writes = @ + 1]
          ELSE /\ tempVideo' \in {tempVideo, PartialFile}
               /\ apc' = "idle"
               /\ h' = [h EXCEPT !.enc = @ + 1, !.writes = @ + 1, !.result = "err"]
  /\ UNCHANGED <<now, frames, tl, artifact, sidecar, archives, tempSegment,
                 tempConcat, selF, startIdx, loopI, kills, qVars, swVars, capVars, webVars, monoVars>>

\* regenerateFullTimelapse: the existing video is renamed to its archive name.
ArchiveExisting ==
  /\ apc = "regen_archive"
  /\ \E ok \in BOOLEAN :
       /\ Outcome(ok)
       /\ (FileExists(artifact) \/ ok)
       /\ ioFails' = Failed(ok)
       /\ IF FileExists(artifact) /\ ok
          THEN /\ archives' = {a \in archives : a.ts # now}
                                \cup {[ts |-> now, data |-> artifact.data]}
               /\ artifact' = NoFile
               /\ h' = [h EXCEPT !.writes = @ + 1]
          ELSE UNCHANGED <<archives, artifact, h>>
  /\ apc' = "regen_rename"
  /\ UNCHANGED <<now, frames, tl, sidecar, tempVideo, tempSegment, tempConcat,
                 selF, startIdx, loopI, kills, qVars, swVars, capVars, webVars, monoVars>>

\* regenerateFullTimelapse: temp_<out> is renamed to the canonical name.
RenameTemp ==
  /\ apc = "regen_rename"
  /\ \E ok \in BOOLEAN :
       /\ Outcome(ok)
       /\ ioFails' = Failed(ok)
       /\ IF ok
          THEN /\ artifact' = tempVideo
               /\ tempVideo' = NoFile
               /\ apc' = "regen_sidecar"
               /\ h' = [h EXCEPT !.writes = @ + 1]
          ELSE /\ UNCHANGED <<artifact, tempVideo>>
               /\ apc' = "idle"
               /\ h' = [h EXCEPT !.result = "err"]
  /\ UNCHANGED <<now, frames, tl, sidecar, archives, tempSegment, tempConcat,
                 selF, startIdx, loopI, kills, qVars, swVars, capVars, webVars, monoVars>>

\* GenerateSingleTimelapse: the tracker is written after a full regeneration;
\* a failed write is logged and the job still returns nil.
WriteTrackerAfterRegen ==
  /\ apc = "regen_sidecar"
  /\ \E ok \in BOOLEAN :
       /\ Outcome(ok)
       /\ ioFails' = Failed(ok)
       /\ (Len(selF) > 0 \/ ok)
       /\ sidecar' = IF ok /\ Len(selF) > 0 THEN TrackerAfterRegen(selF) ELSE sidecar
       /\ h' = [h EXCEPT !.writes = IF ok /\ Len(selF) > 0 THEN @ + 1 ELSE @,
                         !.lost = ~ok, !.result = "ok"]
  /\ apc' = "idle"
  /\ UNCHANGED <<now, frames, tl, artifact, archives, tempVideo, tempSegment,
                 tempConcat, selF, startIdx, loopI, kills, qVars, swVars, capVars, webVars, monoVars>>

(***************************************************************************)
(* Incremental append of selF[startIdx..], one frame per round.            *)
(***************************************************************************)
NewSnapshot == selF[startIdx + loopI + 1]

createVideoSegment ==
  /\ apc = "append_segment"
  /\ \E ok \in BOOLEAN :
       /\ Outcome(ok)
       /\ ioFails' = Failed(ok)
       /\ IF ok
          THEN /\ tempSegment' = NewSnapshot
               /\ apc' = "append_concat"
               /\ h' = [h EXCEPT !.enc = @ + 1, !.writes = @ + 1]
          ELSE /\ UNCHANGED tempSegment
               /\ apc' = "idle"
               /\ h' = [h EXCEPT !.enc = @ + 1, !.result = "err"]
  /\ UNCHANGED <<now, frames, tl, artifact, sidecar, archives, tempVideo,
                 tempConcat, selF, startIdx, loopI, kills, qVars, swVars, capVars, webVars, monoVars>>

\* concatenateVideos into the temp sibling, then os.Remove of the segment.
concatenateVideos ==
  /\ apc = "append_concat"
  /\ \E ok \in BOOLEAN :
       /\ Outcome(ok)
       /\ ioFails' = Failed(ok)
       /\ IF ok
          THEN /\ tempConcat' = VideoFile(Append(artifact.data, tempSegment))
               /\ apc' = "append_rename"
               /\ h' = [h EXCEPT !.enc = @ + 1, !.writes = @ + 1]
          ELSE /\ tempConcat' \in {tempConcat, PartialFile}
               /\ apc' = "idle"
               /\ h' = [h EXCEPT !.enc = @ + 1, !.writes = @ + 1, !.result = "err"]
  /\ tempSegment' = EmptyPath
  /\ UNCHANGED <<now, frames, tl, artifact, sidecar, archives, tempVideo,
                 selF, startIdx, loopI, kills, qVars, swVars, capVars, webVars, monoVars>>

\* os.Rename of the concatenated video over the canonical name.
RenameConcat ==
  /\ apc = "append_rename"
  /\ \E ok \in BOOLEAN :
       /\ Outcome(ok)
       /\ ioFails' = Failed(ok)
       /\ IF ok
          THEN /\ artifact' = tempConcat
               /\ tempConcat' = NoFile
               /\ apc' = "append_sidecar"
               /\ h' = [h EXCEPT !.writes = @ + 1]
          ELSE /\ UNCHANGED <<artifact, tempConcat>>
               /\ apc' = "idle"
               /\ h' = [h EXCEPT !.result = "err"]
  /\ UNCHANGED <<now, frames, tl, sidecar, archives, tempVideo, tempSegment,
                 selF, startIdx, loopI, kills, qVars, swVars, capVars, webVars, monoVars>>

\* writeLastAppendedSnapshot in the loop; a failed write is logged and the
\* loop goes on with the next frame.
writeLastAppendedSnapshot ==
  /\ apc = "append_sidecar"
  /\ \E ok \in BOOLEAN :
       /\ Outcome(ok)
       /\ ioFails' = Failed(ok)
       /\ sidecar' = IF ok THEN TrackerAfterAppend(selF, startIdx, loopI) ELSE sidecar
       /\ IF startIdx + loopI + 1 < Len(selF)
          THEN /\ loopI' = loopI + 1
               /\ apc' = "append_segment"
               /\ h' = [h EXCEPT !.writes = IF ok THEN @ + 1 ELSE @,
                                 !.lost = @ \/ ~ok]
          ELSE /\ loopI' = loopI
               /\ apc' = "idle"
               /\ h' = [h EXCEPT !.writes = IF ok THEN @ + 1 ELSE @,
                                 !.lost = @ \/ ~ok, !.result = "ok"]
  /\ UNCHANGED <<now, frames, tl, artifact, archives, tempVideo, tempSegment,
                 tempConcat, selF, startIdx, kills, qVars, swVars, capVars, webVars, monoVars>>

(***************************************************************************)
(* The process is killed while an assemble job runs, and restarted.  The   *)
(* files stay as they are; an encoder killed in mid-run leaves what it had *)
(* written of its output.                                                  *)
(***************************************************************************)
Kill ==
  /\ apc # "idle"
  /\ kills < MaxKills
  /\ kills' = kills + 1
  /\ apc' = "idle"
  /\ selF' = <<>>
  /\ startIdx' = 0
  /\ loopI' = 0
  /\ h' = [h EXCEPT !.result = "killed"]
  /\ tempVideo' \in IF apc = "regen_encode" THEN {tempVideo, PartialFile} ELSE {tempVideo}
  /\ tempConcat' \in IF apc = "append_concat" THEN {tempConcat, PartialFile} ELSE {tempConcat}
  /\ UNCHANGED <<now, frames, tl, artifact, sidecar, archives, tempSegment, ioFails, qVars, swVars, capVars, webVars, monoVars>>

\* a cutoff that is the time of the sweep
RetentionCutoff_now(clock) == TimeNow(clock)

\* time.Now().Add(-SnapshotRetentionDays * 24h)
RetentionCutoff(clock) == TimeNow(clock) - Instant(RetentionLen)

\* CleanupSnapshots, run by the worker between two assemble jobs: every file
\* whose name parses and is older than the cutoff is removed; a file whose
\* removal fails is logged and stays; when the walk of the tree fails the
\* sweep finds no file and returns.
CleanupSnapshots ==
  /\ apc = "idle"
  /\ LET old == {f \in frames : Parses(f) /\ FileTime(f) < RetentionCutoff(now)}
     IN /\ old # {}
        /\ \E walkok \in BOOLEAN : \E kept \in SUBSET old :
             LET failures == IF walkok THEN Cardinality(kept) ELSE 1
             IN /\ (~walkok) => kept = {}
                /\ ioFails + failures <= MaxIoFails
                /\ ioFails' = ioFails + failures
                /\ frames' = IF walkok THEN (frames \ old) \cup kept ELSE frames
                /\ sw' = [op |-> "frames", at |-> now, before |-> frames, failed |-> kept,
                          skipped |-> {}, aborted |-> IF walkok THEN "no" ELSE "read"]
  /\ UNCHANGED <<now, tl, artifact, sidecar, archives, tempVideo, tempSegment,
                 tempConcat, apc, selF, startIdx, loopI, h, kills, qVars, dataDir, gallery, capVars, webVars, monoVars>>

NextAsm ==
  \/ Tick
  \/ TakeSnapshot
  \/ GenerateSingleTimelapse
  \/ regenerateFullTimelapse
  \/ ArchiveExisting
  \/ RenameTemp
  \/ WriteTrackerAfterRegen
  \/ createVideoSegment
  \/ concatenateVideos
  \/ RenameConcat
  \/ writeLastAppendedSnapshot
  \/ Kill
  \/ CleanupSnapshots

SpecAsm == InitAsm /\ [][NextAsm]_vars

(***************************************************************************)
(* The assemble job as a function of what it finds on disk: the frame      *)
(* store, the video and the tracker are drawn from bounded sets and the    *)
(* job runs on them with no kill and no failing step.                      *)
(***************************************************************************)
Prefixes(s) == {SubSeq(s, 1, k) : k \in 0..Len(s)}

InitAssemble ==
  /\ now \in 0..MaxTime
  /\ frames \in SUBSET (0..now)
  /\ tl \in AsmNames
  /\ artifact \in {NoFile} \cup {VideoFile(d) : d \in Prefixes(GetSnapshotFiles(frames))}
  /\ sidecar \in {EmptyPath} \cup (0..now)
  /\ archives = {}
  /\ tempVideo = NoFile
  /\ tempSegment = EmptyPath
  /\ tempConcat = NoFile
  /\ apc = "idle"
  /\ selF = <<>>
  /\ startIdx = 0
  /\ loopI = 0
  /\ h = NoHistory
  /\ kills = MaxKills
  /\ ioFails = MaxIoFails
  /\ QueueAtRest
  /\ SweepAtRest
  /\ CaptureAtRest
  /\ WebAtRest
  /\ MonoAtRest

NextAssemble ==
  \/ GenerateSingleTimelapse
  \/ regenerateFullTimelapse
  \/ ArchiveExisting
  \/ RenameTemp
  \/ WriteTrackerAfterRegen
  \/ createVideoSegment
  \/ concatenateVideos
  \/ RenameConcat
  \/ writeLastAppendedSnapshot

SpecAssemble == InitAssemble /\ [][NextAssemble]_vars

(***************************************************************************)
(* The frame selector as a function of the frame store, the name and the   *)
(* clock: the store is drawn from the names up to the clock and a name     *)
(* that does not parse, jobs run one after the other with no kill and no   *)
(* failing step, and between their steps the clock advances and the        *)
(* capture task stores frames.                                             *)
(***************************************************************************)
SelectMaxTime == DayLen + 1

SelectNames == AsmNames \cup {DailyName(1), StaticName("1_year")}

InitSelect ==
  /\ now \in 0..SelectMaxTime
  /\ frames \in SUBSET ((0..now) \cup {MalformedFile})
  /\ tl \in SelectNames
  /\ artifact = NoFile
  /\ sidecar = EmptyPath
  /\ archives = {}
  /\ tempVideo = NoFile
  /\ tempSegment = EmptyPath
  /\ tempConcat = NoFile
  /\ apc = "idle"
  /\ selF = <<>>
  /\ startIdx = 0
  /\ loopI = 0
  /\ h = NoHistory
  /\ kills = MaxKills
  /\ ioFails = MaxIoFails
  /\ QueueAtRest
  /\ SweepAtRest
  /\ CaptureAtRest
  /\ WebAtRest
  /\ MonoAtRest

NextSelect ==
  \/ Tick
  \/ TakeSnapshot
  \/ GenerateSingleTimelapse
  \/ regenerateFullTimelapse
  \/ ArchiveExisting
  \/ RenameTemp
  \/ WriteTrackerAfterRegen
  \/ createVideoSegment
  \/ concatenateVideos
  \/ RenameConcat
  \/ writeLastAppendedSnapshot

SpecSelect == InitSelect /\ [][NextSelect]_vars

(***************************************************************************)
(* The capture task alone: the loop of StartSnapshotScheduler under a      *)
(* clock, with or without credentials, with requests and writes that may   *)
(* fail.                                                                   *)
(***************************************************************************)
InitCapture ==
  /\ now = 0
  /\ frames = {}
  /\ tl = DailyName(0)
  /\ artifact = NoFile
  /\ sidecar = EmptyPath
  /\ archives = {}
  /\ tempVideo = NoFile
  /\ tempSegment = EmptyPath
  /\ tempConcat = NoFile
  /\ apc = "idle"
  /\ selF = <<>>
  /\ startIdx = 0
  /\ loopI = 0
  /\ h = NoHistory
  /\ kills = MaxKills
  /\ ioFails = MaxIoFails
  /\ QueueAtRest
  /\ SweepAtRest
  /\ slotData = [g \in {} |-> NoBytes]
  /\ latest = NoBytes
  /\ trunc = {}
  /\ cap = NoCapture
  /\ configured \in BOOLEAN
  /\ capFaults = 0
  /\ WebAtRest
  /\ MonoAtRest

NextCapture ==
  \/ Tick
  \/ TakeSnapshot

SpecCapture == InitCapture /\ [][NextCapture]_vars

(***************************************************************************)
(* The capture task and the assembler side by side: a capture may stop     *)
(* between its two steps while a job runs, a body copy may fail, and an    *)
(* encoder run or file operation of the job may fail.                      *)
(***************************************************************************)
InitConcurrent ==
  /\ now = 0
  /\ frames = {}
  /\ tl = DailyName(0)
  /\ artifact = NoFile
  /\ sidecar = EmptyPath
  /\ archives = {}
  /\ tempVideo = NoFile
  /\ tempSegment = EmptyPath
  /\ tempConcat = NoFile
  /\ apc = "idle"
  /\ selF = <<>>
  /\ startIdx = 0
  /\ loopI = 0
  /\ h = NoHistory
  /\ kills = MaxKills
  /\ ioFails = 0
  /\ QueueAtRest
  /\ SweepAtRest
  /\ slotData = [g \in {} |-> NoBytes]
  /\ latest = NoBytes
  /\ trunc = {}
  /\ cap = NoCapture
  /\ configured = TRUE
  /\ capFaults = 0
  /\ WebAtRest
  /\ MonoAtRest

NextConcurrent ==
  \/ Tick
  \/ CreateSnapshotFile
  \/ CopyBody
  \/ GenerateSingleTimelapse
  \/ regenerateFullTimelapse
  \/ ArchiveExisting
  \/ RenameTemp
  \/ WriteTrackerAfterRegen
  \/ createVideoSegment
  \/ concatenateVideos
  \/ RenameConcat
  \/ writeLastAppendedSnapshot

SpecConcurrent == InitConcurrent /\ [][NextConcurrent]_vars

(***************************************************************************)
(* The retention sweeps of the videos and of the gallery.                  *)
(*                                                                         *)
(* A video of DataDir is [kind, spec, key]:                                *)
(*   daily    timelapse_24_hour_<date>.webm, key the number of the day;    *)
(*   undated  timelapse_24_hour_not-a-date.webm, ten characters or more    *)
(*            behind the prefix that are no date;                          *)
(*   short    timelapse_24_hour_.webm, fewer than 28 characters in all;    *)
(*            os.ReadDir lists it before every dated name;                 *)
(*   archive  timelapse_<spec>_<timestamp>.webm, key the timestamp, whose  *)
(*            order is the order of the names.                             *)
(* A gallery slot YYYY-MM-DD-HH.jpg is the number of its hour.             *)
(***************************************************************************)
VideoArchivesToKeep == 1     \* config.AppConfig.VideoArchivesToKeep
DaysOf24HourSnapshots == 1   \* config.AppConfig.DaysOf24HourSnapshots
SweepDays == 2               \* whole days that have passed when the sweeps run
MaxArchives == 3             \* archives of a name in DataDir

DailyVideo(d) == [kind |-> "daily", spec |-> "24_hour_", key |-> d]
UndatedDaily == [kind |-> "undated", spec |-> "24_hour_", key |-> 0]
ShortDaily == [kind |-> "short", spec |-> "24_hour_", key |-> 0]
Archive(base, ts) == [kind |-> "archive", spec |-> base, key |-> ts]

\* a .jpg of the gallery whose name is not YYYY-MM-DD-HH.jpg
MalformedSlot == -2

\* time.Parse("2006-01-02-15", ...) of the name of a slot
SlotParses(g) == g >= 0
SlotTime(g) == Instant(g * HourLen)

StaticBases == {TimelapseConfigsData[i].Name.base : i \in 1..Len(TimelapseConfigsData)}

\* time.Now().AddDate(0, 0, -DaysOf24HourSnapshots).Truncate(24h), as a day
CutoffDate(clock) == (clock \div DayLen) - DaysOf24HourSnapshots

\* CleanOldVideos, first loop: the dated per-day videos before the cutoff date
OldDailies(dir, clock) == {v \in dir : v.kind = "daily" /\ v.key < CutoffDate(clock)}

ArchivesOf(dir, base) == {v \in dir : v.kind = "archive" /\ v.spec = base}

\* a sweep that removes the newest archives
ExcessArchives_newest(dir, base) ==
  LET arch == ArchivesOf(dir, base)
      n == Cardinality(arch)
  IN IF n <= VideoArchivesToKeep THEN {}
     ELSE {v \in arch : Cardinality({u \in arch : u.key > v.key}) < n - VideoArchivesToKeep}

\* CleanOldVideos, second loop: videoArchives[:len - VideoArchivesToKeep] of
\* the sorted names, nothing when there are no more than VideoArchivesToKeep
ExcessArchives(dir, base) ==
  LET arch == ArchivesOf(dir, base)
      n == Cardinality(arch)
  IN IF n <= VideoArchivesToKeep THEN {}
     ELSE {v \in arch : Cardinality({u \in arch : u.key < v.key}) < n - VideoArchivesToKeep}

\* CleanOldVideos.  The first os.ReadDir may fail, and the sweep returns.  The
\* first loop slices fileName[18:28] of every name with the prefix and the
\* suffix: on the short name the slice is out of range and the process
\* panics before any file is removed.  A name that is no date is skipped, a
\* removal that fails is logged.  The second loop lists the directory again
\* for every configuration and skips the configuration when that fails.
CleanOldVideos ==
  /\ apc = "idle"
  /\ \E readok \in BOOLEAN :
     \E keptDaily \in SUBSET OldDailies(dataDir, now) :
     \E skipped \in SUBSET StaticBases :
       LET panics == readok /\ ShortDaily \in dataDir
           done == readok /\ ~panics
           excess == UNION {ExcessArchives(dataDir, b) : b \in StaticBases \ skipped}
       IN \E keptArchives \in SUBSET excess :
            LET failures == IF ~readok THEN 1
                            ELSE Cardinality(keptDaily) + Cardinality(skipped)
                                 + Cardinality(keptArchives)
            IN /\ (~done) => (keptDaily = {} /\ skipped = {} /\ keptArchives = {})
               /\ ioFails + failures <= MaxIoFails
               /\ ioFails' = ioFails + failures
               /\ dataDir' = IF done
                             THEN (dataDir \ (OldDailies(dataDir, now) \ keptDaily))
                                    \ (excess \ keptArchives)
                             ELSE dataDir
               /\ sw' = [op |-> "videos", at |-> now, before |-> dataDir,
                         failed |-> keptDaily \cup keptArchives, skipped |-> skipped,
                         aborted |-> IF ~readok THEN "read"
                                     ELSE IF panics THEN "panic" ELSE "no"]
  /\ UNCHANGED <<now, frames, tl, artifact, sidecar, archives, tempVideo, tempSegment,
                 tempConcat, apc, selF, startIdx, loopI, h, kills, qVars, gallery, capVars, webVars, monoVars>>

\* CleanupGallery: every slot whose name parses and is older than the cutoff
\* of SnapshotRetentionDays is removed; a slot whose name does not parse is
\* skipped, a removal that fails is logged.
CleanupGallery ==
  /\ apc = "idle"
  /\ LET old == {g \in gallery : SlotParses(g) /\ SlotTime(g) < RetentionCutoff(now)}
     IN \E kept \in SUBSET old :
          /\ ioFails + Cardinality(kept) <= MaxIoFails
          /\ ioFails' = ioFails + Cardinality(kept)
          /\ gallery' = (gallery \ old) \cup kept
          /\ sw' = [op |-> "gallery", at |-> now, before |-> gallery, failed |-> kept,
                    skipped |-> {}, aborted |-> "no"]
  /\ UNCHANGED <<now, frames, tl, artifact, sidecar, archives, tempVideo, tempSegment,
                 tempConcat, apc, selF, startIdx, loopI, h, kills, qVars, dataDir, capVars, webVars, monoVars>>

\* The sweeps as functions of what they find: the clock is in day SweepDays,
\* and one of the three stores holds any set of names, among them names
\* that do not parse.
SweepFrames(clock) == ((clock - RetentionLen - 1)..clock) \cup {MalformedFile}

SweepSlots(clock) ==
  {g \in ((clock \div HourLen) - RetentionLen)..(clock \div HourLen) : g >= 0}
    \cup {MalformedSlot}

SweepVideos ==
  {DailyVideo(d) : d \in 0..SweepDays} \cup {UndatedDaily, ShortDaily}
    \cup {Archive("1_week", ts) : ts \in 1..MaxArchives}
    \cup {Archive("1_month", ts) : ts \in 1..(MaxArchives - 1)}

InitSweep ==
  /\ now \in (SweepDays * DayLen)..(SweepDays * DayLen + 1)
  /\ \E store \in {"frames", "videos", "gallery"} :
       /\ frames \in IF store = "frames" THEN SUBSET SweepFrames(now) ELSE {{}}
       /\ dataDir \in IF store = "videos" THEN SUBSET SweepVideos ELSE {{}}
       /\ gallery \in IF store = "gallery" THEN SUBSET SweepSlots(now) ELSE {{}}
  /\ sw = NoSweep
  /\ tl = DailyName(0)
  /\ artifact = NoFile
  /\ sidecar = EmptyPath
  /\ archives = {}
  /\ tempVideo = NoFile
  /\ tempSegment = EmptyPath
  /\ tempConcat = NoFile
  /\ apc = "idle"
  /\ selF = <<>>
  /\ startIdx = 0
  /\ loopI = 0
  /\ h = NoHistory
  /\ kills = 0
  /\ ioFails = 0
  /\ QueueAtRest
  /\ CaptureAtRest
  /\ WebAtRest
  /\ MonoAtRest

NextSweep ==
  \/ CleanupSnapshots
  \/ CleanOldVideos
  \/ CleanupGallery

SpecSweep == InitSweep /\ [][NextSweep]_vars

(***************************************************************************)
(* The job queue and the worker.  The table jobs survives a kill of the    *)
(* process; the goroutines do not.  In this specification the body of a    *)
(* job is one step that returns any result the body can return; what the   *)
(* body does to the files is the subject of SpecAsm.                       *)
(***************************************************************************)
MaxEnqueues == 1             \* runs of EnqueueTimelapseJobs per goroutine
MaxPending == 2              \* pending rows the table holds at a time

asmButFails == <<now, frames, tl, artifact, sidecar, archives, tempVideo,
                 tempSegment, tempConcat, apc, selF, startIdx, loopI, h, kills>>

NullPayload == StaticName("null")

\* a list without the cleanup jobs
JobList_noSweeps(clock) ==
  [i \in 1..DaysOf24HourSnapshots |->
     [job_type |-> "generate_timelapse",
      payload |-> DailyName((clock \div DayLen) - (i - 1))]]
  \o [i \in 1..Len(TimelapseConfigsData) |->
        [job_type |-> "generate_timelapse", payload |-> TimelapseConfigsData[i].Name]]

\* EnqueueTimelapseJobs: the jobs it creates, in the order it creates them.
JobList(clock) ==
  [i \in 1..DaysOf24HourSnapshots |->
     [job_type |-> "generate_timelapse",
      payload |-> DailyName((clock \div DayLen) - (i - 1))]]
  \o [i \in 1..Len(TimelapseConfigsData) |->
        [job_type |-> "generate_timelapse", payload |-> TimelapseConfigsData[i].Name]]
  \o << [job_type |-> "cleanup_snapshots", payload |-> NullPayload],
        [job_type |-> "cleanup_videos", payload |-> NullPayload],
        [job_type |-> "cleanup_logs", payload |-> NullPayload],
        [job_type |-> "cleanup_gallery", payload |-> NullPayload] >>

\* StartVideoGeneratorScheduler: the sleep is over and EnqueueTimelapseJobs starts.
StartVideoGeneratorScheduler ==
  /\ epos["scheduler"] = 0
  /\ enqueues["scheduler"] < MaxEnqueues
  /\ epos' = [epos EXCEPT !["scheduler"] = 1]
  /\ enqueues' = [enqueues EXCEPT !["scheduler"] = @ + 1]
  /\ calls' = [calls EXCEPT !["scheduler"] = <<>>]
  /\ UNCHANGED <<asmVars, swVars, capVars, webVars, monoVars, jobs, nextId, wpc, wjob>>

\* models.VideoStatusData: the value it is declared with.  The worker, the
\* scheduler, the assembler and the sweepers have no statement that assigns
\* to one of its fields, so this is what every reader finds.
VideoStatusData ==
  [IsRunning |-> FALSE, LastRun |-> NoTime, Error |-> "",
   CurrentlyGenerating |-> StaticName(""), CurrentFile |-> ""]

\* HandleForceGenerate: go video.EnqueueTimelapseJobs() unless IsRunning,
\* whatever else runs.
HandleForceGenerate ==
  /\ ~VideoStatusData.IsRunning
  /\ epos["force"] = 0
  /\ enqueues["force"] < MaxEnqueues
  /\ epos' = [epos EXCEPT !["force"] = 1]
  /\ enqueues' = [enqueues EXCEPT !["force"] = @ + 1]
  /\ calls' = [calls EXCEPT !["force"] = <<>>]
  /\ UNCHANGED <<asmVars, swVars, capVars, webVars, monoVars, jobs, nextId, wpc, wjob>>

Pending == {r \in jobs : r.status = "pending"}

\* jobs.CreateJob, called by EnqueueTimelapseJobs for the next job of its list:
\* the row gets the next id, status pending and CURRENT_TIMESTAMP, which has
\* the resolution of a second.  A failed INSERT is logged and the list goes on.
CreateJob(e) ==
  /\ epos[e] > 0
  /\ Cardinality(Pending) < MaxPending
  /\ \E ok \in BOOLEAN :
       /\ Outcome(ok)
       /\ ioFails' = Failed(ok)
       /\ IF ok
          THEN /\ jobs' = jobs \cup
                    {[id |-> nextId,
                      job_type |-> JobList(now)[epos[e]].job_type,
                      payload |-> JobList(now)[epos[e]].payload,
                      status |-> "pending",
                      created_at |-> now,
                      dispatches |-> 0,
                      life |-> -1]}
               /\ nextId' = nextId + 1
          ELSE UNCHANGED <<jobs, nextId>>
       /\ calls' = [calls EXCEPT ![e] =
                       Append(@, [job_type |-> JobList(now)[epos[e]].job_type,
                                  payload |-> JobList(now)[epos[e]].payload,
                                  ok |-> ok])]
  /\ epos' = [epos EXCEPT ![e] = IF @ < Len(JobList(now)) THEN @ + 1 ELSE 0]
  /\ UNCHANGED <<asmButFails, swVars, capVars, webVars, monoVars, wpc, wjob, enqueues>>

\* SELECT ... WHERE status = 'pending' ORDER BY created_at ASC LIMIT 1: the
\* order of rows with the same created_at is not defined by the statement.
OldestPending == {r \in Pending : \A q \in Pending : r.created_at <= q.created_at}

\* UPDATE jobs SET status = ? WHERE id = ?
UpdateJobStatus(rows, id, status) ==
  {IF r.id = id THEN [r EXCEPT !.status = status] ELSE r : r \in rows}

\* worker.Start: jobs.GetPendingJob(); an error or no row sends the worker to sleep.
GetPendingJob(w) ==
  /\ wpc[w] = "poll"
  /\ \E ok \in BOOLEAN :
       /\ Outcome(ok)
       /\ ioFails' = Failed(ok)
       /\ IF ok /\ Pending # {}
          THEN \E r \in OldestPending :
                 /\ wjob' = [wjob EXCEPT ![w] = [id |-> r.id, job_type |-> r.job_type,
                                                 payload |-> r.payload, err |-> FALSE,
                                                 ran |-> "none"]]
                 /\ wpc' = [wpc EXCEPT ![w] = "picked"]
          ELSE /\ wjob' = wjob
               /\ wpc' = [wpc EXCEPT ![w] = "sleep"]
  /\ UNCHANGED <<asmButFails, swVars, capVars, webVars, monoVars, calls, jobs, nextId, epos, enqueues>>

\* worker.Start: time.Sleep(10 * time.Second) is over.
Sleep(w) ==
  /\ wpc[w] = "sleep"
  /\ wpc' = [wpc EXCEPT ![w] = "poll"]
  /\ UNCHANGED <<asmVars, swVars, capVars, webVars, monoVars, calls, jobs, nextId, wjob, epos, enqueues>>

\* worker.Start: UpdateJobStatus(job.ID, "running", nil); on an error the loop
\* starts over and the job stays as it is.
MarkRunning(w) ==
  /\ wpc[w] = "picked"
  /\ \E ok \in BOOLEAN :
       /\ Outcome(ok)
       /\ ioFails' = Failed(ok)
       /\ IF ok
          THEN /\ jobs' = {IF r.id = wjob[w].id
                           THEN [r EXCEPT !.status = "running",
                                          !.dispatches = @ + 1, !.life = kills]
                           ELSE r : r \in jobs}
               /\ wpc' = [wpc EXCEPT ![w] = "exec"]
               /\ wjob' = wjob
          ELSE /\ jobs' = jobs
               /\ wpc' = [wpc EXCEPT ![w] = "poll"]
               /\ wjob' = [wjob EXCEPT ![w] = NoJob]
  /\ UNCHANGED <<asmButFails, swVars, capVars, webVars, monoVars, calls, nextId, epos, enqueues>>

\* a payload that is no JSON object with a string timelapse_name, such as
\* the JSON string "invalid payload"
InvalidPayload == StaticName("invalid payload")

\* a decoder that takes any payload
Unmarshal_any(payload) == TRUE

\* json.Unmarshal([]byte(job.Payload), &payload) returns no error
Unmarshal(payload) == payload # InvalidPayload

\* worker.Start, the switch on job.JobType: the function the case calls
Handler(job_type, payload) ==
  CASE job_type = "generate_timelapse" ->
         IF Unmarshal(payload) THEN "GenerateSingleTimelapse" ELSE "none"
    [] job_type = "cleanup_snapshots" -> "CleanupSnapshots"
    [] job_type = "cleanup_videos" -> "CleanOldVideos"
    [] OTHER -> "none"

\* worker.Start, the switch on job.JobType: the errors the body can return.
JobErrors(job_type) ==
  CASE job_type = "generate_timelapse" -> BOOLEAN
    [] job_type \in {"cleanup_snapshots", "cleanup_videos"} -> {FALSE}
    [] OTHER -> {TRUE}

\* worker.Start: the body of the job runs and returns; a payload that does
\* not decode is the error of the job.
RunJob(w) ==
  /\ wpc[w] = "exec"
  /\ \E jobErr \in IF wjob[w].job_type = "generate_timelapse" /\ ~Unmarshal(wjob[w].payload)
                    THEN {TRUE} ELSE JobErrors(wjob[w].job_type) :
       wjob' = [wjob EXCEPT ![w].err = jobErr,
                            ![w].ran = Handler(wjob[w].job_type, wjob[w].payload)]
  /\ wpc' = [wpc EXCEPT ![w] = "finish"]
  /\ UNCHANGED <<asmVars, swVars, capVars, webVars, monoVars, calls, jobs, nextId, epos, enqueues>>

\* a failed job that is put back into the queue
FinalStatus_retry(jobErr) == IF jobErr THEN "pending" ELSE "completed"

\* worker.Start: the status a finished job gets.
FinalStatus(jobErr) == IF jobErr THEN "failed" ELSE "completed"

\* worker.Start: UpdateJobStatus(job.ID, "failed" or "completed"); an error is logged.
MarkFinished(w) ==
  /\ wpc[w] = "finish"
  /\ \E ok \in BOOLEAN :
       /\ Outcome(ok)
       /\ ioFails' = Failed(ok)
       /\ jobs' = IF ok THEN UpdateJobStatus(jobs, wjob[w].id, FinalStatus(wjob[w].err))
                  ELSE jobs
  /\ wpc' = [wpc EXCEPT ![w] = "delete"]
  /\ UNCHANGED <<asmButFails, swVars, capVars, webVars, monoVars, calls, nextId, wjob, epos, enqueues>>

\* worker.Start: jobs.DeleteJob(job.ID); an error is logged.
DeleteJob(w) ==
  /\ wpc[w] = "delete"
  /\ \E ok \in BOOLEAN :
       /\ Outcome(ok)
       /\ ioFails' = Failed(ok)
       /\ jobs' = IF ok THEN {r \in jobs : r.id # wjob[w].id} ELSE jobs
  /\ wpc' = [wpc EXCEPT ![w] = "poll"]
  /\ wjob' = [wjob EXCEPT ![w] = NoJob]
  /\ UNCHANGED <<asmButFails, swVars, capVars, webVars, monoVars, calls, nextId, epos, enqueues>>

\* The process is killed and main runs again: the table is as it was, the
\* worker starts at the top of its loop, a list half enqueued is not resumed.
Restart ==
  /\ kills < MaxKills
  /\ kills' = kills + 1
  /\ wpc' = [w \in Workers |-> "poll"]
  /\ wjob' = [w \in Workers |-> NoJob]
  /\ epos' = [e \in Enqueuers |-> 0]
  /\ calls' = [e \in Enqueuers |-> <<>>]
  /\ UNCHANGED <<now, frames, tl, artifact, sidecar, archives, tempVideo, tempSegment,
                 tempConcat, apc, selF, startIdx, loopI, h, ioFails, jobs, nextId,
                 enqueues, swVars, capVars, webVars, monoVars>>

InitQueue ==
  /\ now = MaxTime - 1
  /\ frames = {}
  /\ tl = DailyName(0)
  /\ artifact = NoFile
  /\ sidecar = EmptyPath
  /\ archives = {}
  /\ tempVideo = NoFile
  /\ tempSegment = EmptyPath
  /\ tempConcat = NoFile
  /\ apc = "idle"
  /\ selF = <<>>
  /\ startIdx = 0
  /\ loopI = 0
  /\ h = NoHistory
  /\ kills = 0
  /\ ioFails = 0
  /\ QueueAtRest
  /\ SweepAtRest
  /\ CaptureAtRest
  /\ WebAtRest
  /\ MonoAtRest

NextQueue ==
  \/ Tick
  \/ StartVideoGeneratorScheduler
  \/ \E e \in Enqueuers : CreateJob(e)
  \/ \E w \in Workers : GetPendingJob(w)
  \/ \E w \in Workers : Sleep(w)
  \/ \E w \in Workers : MarkRunning(w)
  \/ \E w \in Workers : RunJob(w)
  \/ \E w \in Workers : MarkFinished(w)
  \/ \E w \in Workers : DeleteJob(w)
  \/ Restart

SpecQueue == InitQueue /\ [][NextQueue]_vars

(***************************************************************************)
(* The queue with force-generate requests: the scheduler and a request     *)
(* enqueue side by side while the worker runs.  No database statement      *)
(* fails.                                                                  *)
(***************************************************************************)
InitForce ==
  /\ now = MaxTime - 1
  /\ frames = {}
  /\ tl = DailyName(0)
  /\ artifact = NoFile
  /\ sidecar = EmptyPath
  /\ archives = {}
  /\ tempVideo = NoFile
  /\ tempSegment = EmptyPath
  /\ tempConcat = NoFile
  /\ apc = "idle"
  /\ selF = <<>>
  /\ startIdx = 0
  /\ loopI = 0
  /\ h = NoHistory
  /\ kills = 0
  /\ ioFails = MaxIoFails
  /\ QueueAtRest
  /\ SweepAtRest
  /\ CaptureAtRest
  /\ WebAtRest
  /\ MonoAtRest

NextForce ==
  \/ Tick
  \/ StartVideoGeneratorScheduler
  \/ HandleForceGenerate
  \/ \E e \in Enqueuers : CreateJob(e)
  \/ \E w \in Workers : GetPendingJob(w)
  \/ \E w \in Workers : Sleep(w)
  \/ \E w \in Workers : MarkRunning(w)
  \/ \E w \in Workers : RunJob(w)
  \/ \E w \in Workers : MarkFinished(w)
  \/ \E w \in Workers : DeleteJob(w)
  \/ Restart

SpecForce == InitForce /\ [][NextForce]_vars

(***************************************************************************)
(* The queue under a worker that keeps running: the process is not killed, *)
(* every step of the worker loop is taken in the end, every body returns.  *)
(* One statement may fail once; the update to running may fail any number  *)
(* of times.                                                               *)
(***************************************************************************)
\* worker.Start: UpdateJobStatus(job.ID, "running", nil) returns an error
\* once more; the loop starts over without a sleep and the row stays pending.
MarkRunningFails(w) ==
  /\ wpc[w] = "picked"
  /\ wpc' = [wpc EXCEPT ![w] = "poll"]
  /\ wjob' = [wjob EXCEPT ![w] = NoJob]
  /\ UNCHANGED <<asmVars, swVars, capVars, webVars, monoVars, calls, jobs, nextId, epos, enqueues>>

\* one turn of the loop of worker.Start
WorkerTurn(w) ==
  \/ GetPendingJob(w)
  \/ Sleep(w)
  \/ MarkRunning(w)
  \/ MarkRunningFails(w)
  \/ RunJob(w)
  \/ MarkFinished(w)
  \/ DeleteJob(w)

InitLive ==
  /\ now = MaxTime - 1
  /\ frames = {}
  /\ tl = DailyName(0)
  /\ artifact = NoFile
  /\ sidecar = EmptyPath
  /\ archives = {}
  /\ tempVideo = NoFile
  /\ tempSegment = EmptyPath
  /\ tempConcat = NoFile
  /\ apc = "idle"
  /\ selF = <<>>
  /\ startIdx = 0
  /\ loopI = 0
  /\ h = NoHistory
  /\ kills = MaxKills
  /\ ioFails = 0
  /\ QueueAtRest
  /\ SweepAtRest
  /\ CaptureAtRest
  /\ WebAtRest
  /\ MonoAtRest

NextLive ==
  \/ Tick
  \/ StartVideoGeneratorScheduler
  \/ \E e \in Enqueuers : CreateJob(e)
  \/ \E w \in Workers : GetPendingJob(w)
  \/ \E w \in Workers : Sleep(w)
  \/ \E w \in Workers : MarkRunning(w)
  \/ \E w \in Workers : MarkRunningFails(w)
  \/ \E w \in Workers : RunJob(w)
  \/ \E w \in Workers : MarkFinished(w)
  \/ \E w \in Workers : DeleteJob(w)

SpecLive == InitLive /\ [][NextLive]_vars /\ WF_vars(\E w \in Workers : WorkerTurn(w))

(***************************************************************************)
(* The worker on a table that holds any rows: jobs of the scheduler, a job *)
(* of a type the worker has no case for, an assemble job whose payload     *)
(* does not decode.  Database statements may fail; the process is not      *)
(* killed.                                                                 *)
(***************************************************************************)
WorkerJobs ==
  { [job_type |-> "generate_timelapse", payload |-> StaticName("1_week")],
    [job_type |-> "generate_timelapse", payload |-> InvalidPayload],
    [job_type |-> "cleanup_snapshots", payload |-> NullPayload],
    [job_type |-> "cleanup_logs", payload |-> NullPayload],
    [job_type |-> "unknown_job", payload |-> NullPayload] }

Row(id, j, at) ==
  [id |-> id, job_type |-> j.job_type, payload |-> j.payload, status |-> "pending",
   created_at |-> at, dispatches |-> 0, life |-> -1]

InitWorker ==
  /\ now = 1
  /\ frames = {}
  /\ tl = DailyName(0)
  /\ artifact = NoFile
  /\ sidecar = EmptyPath
  /\ archives = {}
  /\ tempVideo = NoFile
  /\ tempSegment = EmptyPath
  /\ tempConcat = NoFile
  /\ apc = "idle"
  /\ selF = <<>>
  /\ startIdx = 0
  /\ loopI = 0
  /\ h = NoHistory
  /\ kills = MaxKills
  /\ ioFails = 0
  /\ \E a \in WorkerJobs : \E b \in WorkerJobs : \E at \in 0..now :
       jobs \in { {Row(1, a, 0)}, {Row(1, a, 0), Row(2, b, at)} }
  /\ nextId = Cardinality(jobs) + 1
  /\ wpc = [w \in Workers |-> "poll"]
  /\ wjob = [w \in Workers |-> NoJob]
  /\ epos = [e \in Enqueuers |-> 0]
  /\ enqueues = [e \in Enqueuers |-> 0]
  /\ calls = [e \in Enqueuers |-> <<>>]
  /\ SweepAtRest
  /\ CaptureAtRest
  /\ WebAtRest
  /\ MonoAtRest

NextWorker ==
  \/ \E w \in Workers : GetPendingJob(w)
  \/ \E w \in Workers : Sleep(w)
  \/ \E w \in Workers : MarkRunning(w)
  \/ \E w \in Workers : RunJob(w)
  \/ \E w \in Workers : MarkFinished(w)
  \/ \E w \in Workers : DeleteJob(w)

SpecWorker == InitWorker /\ [][NextWorker]_vars

(***************************************************************************)
(* The share links: POST /share, GET /public/:token and the hourly sweep   *)
(* of StartShareLinkCleanupScheduler, under a clock.  A token is 32 random *)
(* bytes hashed; tokens are numbered in the order they are made and 0 is a *)
(* token no row has.                                                       *)
(***************************************************************************)
Served(handler, token, filePath, status, file) ==
  [handler |-> handler, at |-> now, token |-> token, filePath |-> filePath,
   status |-> status, file |-> file, rows |-> links]

HandleShareLink ==
  /\ Cardinality(minted) < MaxLinks
  /\ \E filePath \in SharePaths :
       LET absFilePath == ResolveInDataDir(shareCfg.DataDir, filePath)
           status == IF filePath = NoPath THEN 400
                     ELSE IF ~HasPrefix(absFilePath, shareCfg.DataDir) THEN 403
                     ELSE 200
           expiry == Expiry(shareCfg.ShareLinkExpiryHours)
           token == Cardinality(minted) + 1
       IN /\ links' = IF status = 200
                        THEN CreateShareLink(links, token, filePath, expiry, now, shareCfg.zone)
                        ELSE links
          /\ minted' = IF status = 200
                         THEN minted \cup {[token |-> token, file_path |-> filePath,
                                            duration |-> expiry, at |-> now]}
                         ELSE minted
          /\ served' = Served("share", IF status = 200 THEN token ELSE 0, filePath, status, NoPath)
  /\ UNCHANGED <<asmVars, qVars, swVars, capVars, monoVars, shareCfg, authed>>

\* c.File: a file is sent, a directory is answered with a redirect to the
\* same address with a slash, anything else is not found
ServeFile(absFilePath) ==
  IF absFilePath \in Files THEN 200 ELSE IF absFilePath \in Dirs THEN 301 ELSE 404

HandlePublicLink ==
  /\ \E token \in 0..MaxLinks :
       LET filePath == GetSharedFilePath(links, token, now)
           absFilePath == ResolveInDataDir(shareCfg.DataDir, filePath)
           status == IF filePath = NoPath THEN 404
                     ELSE IF ~HasPrefix(absFilePath, shareCfg.DataDir) THEN 403
                     ELSE ServeFile(absFilePath)
       IN served' = Served("public", token, filePath, status,
                           IF status = 200 THEN absFilePath ELSE NoPath)
  /\ UNCHANGED <<asmVars, qVars, swVars, capVars, monoVars, links, minted, shareCfg, authed>>

DeleteExpiredShareLinks ==
  /\ links' = links \ Swept(links, now, shareCfg.zone)
  /\ served' = Served("sweep", 0, NoPath, 0, NoPath)
  /\ UNCHANGED <<asmVars, qVars, swVars, capVars, monoVars, minted, shareCfg, authed>>

InitShare ==
  /\ now = 0
  /\ frames = {}
  /\ tl = DailyName(0)
  /\ artifact = NoFile
  /\ sidecar = EmptyPath
  /\ archives = {}
  /\ tempVideo = NoFile
  /\ tempSegment = EmptyPath
  /\ tempConcat = NoFile
  /\ apc = "idle"
  /\ selF = <<>>
  /\ startIdx = 0
  /\ loopI = 0
  /\ h = NoHistory
  /\ kills = MaxKills
  /\ ioFails = MaxIoFails
  /\ QueueAtRest
  /\ SweepAtRest
  /\ CaptureAtRest
  /\ links = {}
  /\ minted = {}
  /\ shareCfg \in [DataDir : DataDirs, ShareLinkExpiryHours : ExpiryHours, zone : Zones]
  /\ served = NoServed
  /\ authed = NoAuthed
  /\ MonoAtRest

NextShare ==
  \/ Tick
  \/ HandleShareLink
  \/ HandlePublicLink
  \/ DeleteExpiredShareLinks

SpecShare == InitShare /\ [][NextShare]_vars

(***************************************************************************)
(* The routes of SetupRouter.  A token is what the Authorization header or *)
(* the cookie carries: nothing, a text that is no JWT, or a JWT, of which  *)
(* the model keeps the key it is signed with, its exp and its is_admin.    *)
(* APP_KEY is the secret LoadConfig reads; the text "" is what             *)
(* config.AppConfig.AppKey holds before LoadConfig has run.                *)
(***************************************************************************)
AppKey == "APP_KEY"
Keys == {AppKey, "", "other key"}

\* var jwtSecret = []byte(config.AppConfig.AppKey): the initializer of a
\* package variable, evaluated before main calls config.LoadConfig
jwtSecret == ""

NoExp == -1
Jwt(key, exp, is_admin) == [kind |-> "jwt", key |-> key, exp |-> exp, is_admin |-> is_admin]
InvalidToken == [kind |-> "invalid-token", key |-> "", exp |-> NoExp, is_admin |-> FALSE]

Users == {[IsAdmin |-> FALSE], [IsAdmin |-> TRUE]}
NoUser == [IsAdmin |-> FALSE, exists |-> FALSE]

\* GenerateJWT: signed with jwtSecret, valid for 24 hours; a NumericDate
\* holds whole seconds
GenerateJWT(user, clock) == Jwt(jwtSecret, Instant(clock + DayLen), user.IsAdmin)

\* ValidateJWT: the signature is verified with jwtSecret, and exp, when the
\* token has one, must lie after now
ValidateJWT(tokenString, clock) ==
  /\ tokenString.kind = "jwt"
  /\ tokenString.key = jwtSecret
  /\ tokenString.exp = NoExp \/ TimeNow(clock) < tokenString.exp

\* the tokens a request may carry at clock: the ones LoginHandler has issued
\* in the last day and before, and the ones anybody can write
Issued(clock) == {GenerateJWT(u, iat) : u \in Users, iat \in (0 - DayLen)..clock}
Written(clock) ==
  {Jwt(k, e, a) : k \in Keys, e \in {NoExp, Instant(clock), Instant(clock + 1)}, a \in BOOLEAN}
Tokens(clock) == {NoToken, InvalidToken} \cup Issued(clock) \cup Written(clock)

RouteGroups == {"public", "authorized", "admin"}

\* AuthMiddleware: the token of the header when there is one, else of the
\* cookie (which is not looked at when the header has one); 302 to /login without a token or with one ValidateJWT rejects
AuthMiddleware(header, cookie, clock) ==
  LET tokenString == IF header # NoToken THEN header ELSE cookie
  IN IF tokenString = NoToken THEN [status |-> 302, user |-> NoUser, token |-> tokenString]
     ELSE IF ~ValidateJWT(tokenString, clock)
            THEN [status |-> 302, user |-> NoUser, token |-> tokenString]
     ELSE [status |-> 0, user |-> [IsAdmin |-> tokenString.is_admin, exists |-> TRUE],
           token |-> tokenString]

\* AdminOnlyMiddleware: 403 without a user in the context or for a user who
\* is no admin
AdminOnlyMiddleware(user) == IF ~user.exists THEN 403 ELSE IF ~user.IsAdmin THEN 403 ELSE 0

\* a request to a route of a group: the middlewares of the group in the order
\* SetupRouter attached them, then the handler unless one of them aborted
ServeHTTP ==
  /\ \E group \in RouteGroups : \E header \in Tokens(now) : \E cookie \in Tokens(now) :
       /\ header # NoToken => cookie \in {NoToken, InvalidToken}
       /\ LET auth == IF group = "public"
                        THEN [status |-> 0, user |-> NoUser, token |-> NoToken]
                        ELSE AuthMiddleware(header, cookie, now)
              admin == IF group = "admin" /\ auth.status = 0
                         THEN AdminOnlyMiddleware(auth.user) ELSE 0
              status == IF auth.status # 0 THEN auth.status ELSE admin
          IN authed' = [group |-> group, at |-> now, token |-> auth.token,
                        status |-> IF status = 0 THEN 200 ELSE status, ran |-> status = 0]
  /\ UNCHANGED <<asmVars, qVars, swVars, capVars, monoVars, links, minted, shareCfg, served>>

InitAuth ==
  /\ now = 0
  /\ frames = {}
  /\ tl = DailyName(0)
  /\ artifact = NoFile
  /\ sidecar = EmptyPath
  /\ archives = {}
  /\ tempVideo = NoFile
  /\ tempSegment = EmptyPath
  /\ tempConcat = NoFile
  /\ apc = "idle"
  /\ selF = <<>>
  /\ startIdx = 0
  /\ loopI = 0
  /\ h = NoHistory
  /\ kills = MaxKills
  /\ ioFails = MaxIoFails
  /\ QueueAtRest
  /\ SweepAtRest
  /\ CaptureAtRest
  /\ WebAtRest
  /\ MonoAtRest

NextAuth ==
  \/ Tick
  \/ ServeHTTP

SpecAuth == InitAuth /\ [][NextAuth]_vars

(***************************************************************************)
(* The monolithic program: the scheduler loop and the goroutines of        *)
(* handleForceGenerate around generateAllTimelapses, under a clock.        *)
(***************************************************************************)
\* startVideoGeneratorScheduler: the loop reads videoStatus.IsRunning and
\* calls generateAllTimelapses when it is false; otherwise it logs that the
\* generation is skipped and sleeps.
startVideoGeneratorScheduler ==
  /\ gen["scheduler"] = "check"
  /\ gen' = [gen EXCEPT !["scheduler"] = IF ~videoStatus.IsRunning THEN "called" ELSE "sleep"]
  /\ UNCHANGED <<asmVars, qVars, swVars, capVars, webVars, videoStatus>>

\* startVideoGeneratorScheduler: time.Sleep(VideoCronIntervalSec) is over.
SchedulerWakes ==
  /\ gen["scheduler"] = "sleep"
  /\ gen' = [gen EXCEPT !["scheduler"] = "check"]
  /\ UNCHANGED <<asmVars, qVars, swVars, capVars, webVars, videoStatus>>

\* handleForceGenerate: IsRunning is read under the read lock; when it is
\* false a new goroutine is started with generateAllTimelapses; the request
\* is redirected either way.
handleForceGenerate ==
  /\ \E g \in Forced :
       /\ gen[g] = "none"
       /\ LET isRunning == videoStatus.IsRunning
          IN gen' = IF ~isRunning THEN [gen EXCEPT ![g] = "called"] ELSE gen
  /\ UNCHANGED <<asmVars, qVars, swVars, capVars, webVars, videoStatus>>

\* generateAllTimelapses, its first statements: under the lock IsRunning is
\* set and Error is cleared.
generateAllTimelapses(g) ==
  /\ gen[g] = "called"
  /\ videoStatus' = [videoStatus EXCEPT !.IsRunning = TRUE, !.Error = ""]
  /\ gen' = [gen EXCEPT ![g] = "generating"]
  /\ UNCHANGED <<asmVars, qVars, swVars, capVars, webVars>>

\* generateAllTimelapses, the videos and the deferred function: a video that
\* fails leaves its error in Error; IsRunning is cleared and LastRun set on
\* return.
Return(g) ==
  /\ gen[g] = "generating"
  /\ \E failed \in BOOLEAN :
       videoStatus' = [IsRunning |-> FALSE, LastRun |-> TimeNow(now),
                       Error |-> IF failed THEN "Error on" ELSE videoStatus.Error]
  /\ gen' = [gen EXCEPT ![g] = IF g = "scheduler" THEN "sleep" ELSE "none"]
  /\ UNCHANGED <<asmVars, qVars, swVars, capVars, webVars>>

InitMono ==
  /\ now = 0
  /\ frames = {}
  /\ tl = DailyName(0)
  /\ artifact = NoFile
  /\ sidecar = EmptyPath
  /\ archives = {}
  /\ tempVideo = NoFile
  /\ tempSegment = EmptyPath
  /\ tempConcat = NoFile
  /\ apc = "idle"
  /\ selF = <<>>
  /\ startIdx = 0
  /\ loopI = 0
  /\ h = NoHistory
  /\ kills = MaxKills
  /\ ioFails = MaxIoFails
  /\ QueueAtRest
  /\ SweepAtRest
  /\ CaptureAtRest
  /\ WebAtRest
  /\ MonoAtRest

NextMono ==
  \/ Tick
  \/ startVideoGeneratorScheduler
  \/ SchedulerWakes
  \/ handleForceGenerate
  \/ \E g \in Goroutines : generateAllTimelapses(g)
  \/ \E g \in Goroutines : Return(g)

SpecMono == InitMono /\ [][NextMono]_vars

(***************************************************************************)
(* Properties of the assembler.                                            *)
(***************************************************************************)
JobDone == apc = "idle" /\ h.result = "ok"

\* the frames of a selector output that come after the tracked frame
AfterTail(sel, tail) ==
  {f \in Range(sel) : tail \notin Range(sel) \/ f > tail}

\* C1: after a kill during an append the next run of the job leaves every
\* frame of its selector output that comes after the tracker's frame in the
\* video, and as long as no step failed a frame is in the video at most once
\* more than the process was killed.
C1_NoFrameSkipped ==
  /\ (JobDone /\ h.mode \in {"full", "append", "noop"})
       => \A f \in AfterTail(selF, h.tail0) : f \in Range(artifact.data)
  /\ (ioFails = 0)
       => \A f \in Range(artifact.data) : Count(f, artifact.data) <= 1 + kills

C1_Witness ==
  /\ JobDone /\ h.mode = "append" /\ kills = 1 /\ ioFails = 0
  /\ \E f \in AfterTail(selF, h.tail0) : Count(f, artifact.data) = 2

\* C2: whenever the canonical video exists, the tracker names no frame later
\* than the last frame the video holds.
C2_SidecarNotAhead ==
  (FileExists(artifact) /\ sidecar # EmptyPath)
    => (Len(artifact.data) > 0 /\ sidecar <= Last(artifact.data))

C2_Witness ==
  /\ FileExists(artifact) /\ sidecar # EmptyPath /\ kills = 1
  /\ sidecar < Last(artifact.data)

SelectorOutput ==
  LET r == ResolveConfig(tl, h.t0)
  IN filterSnapshots(GetSnapshotFiles(h.frames0), r.cfg, r.target)

FilesUntouched ==
  /\ artifact = h.art0 /\ sidecar = h.tail0 /\ archives = h.arch0
  /\ h.enc = 0 /\ h.writes = 0

\* C9 as stated: a run that follows a successful run, with no frame captured
\* or removed in between and no step that ever failed, invokes no encoder and
\* writes no file.
C9_Original == (h.succ /\ ioFails = 0 /\ kills = 0) => FilesUntouched

\* C10: a job whose selector output is empty returns success, has invoked no
\* encoder and has left the video, the archives and the tracker as they were.
C10_EmptyIsNoOp ==
  (h.mode # "none" /\ ResolveConfig(tl, h.t0).ok /\ SelectorOutput = <<>>)
    => (apc = "idle" /\ h.result = "ok" /\ FilesUntouched)

C10_Witness ==
  /\ h.mode = "empty" /\ h.frames0 # {} /\ FileExists(artifact)
  /\ sidecar # EmptyPath /\ JobDone

\* what the statement of C8 makes of a selector output, a video and a tracker
ExpectedMode(sel, video, tail) ==
  IF (~video.exists) \/ Len(video.data) = 0 \/ tail = EmptyPath \/ tail \notin Range(sel)
  THEN "full"
  ELSE IF tail # Last(sel) THEN "append" ELSE "noop"

SeqAfter(sel, tail) == SelectSeq(sel, LAMBDA f : f > tail)

\* C8: with a selector output that is not empty the job regenerates in full
\* exactly when the video is missing or zero-byte or the tracker is empty or
\* names no frame of the output; otherwise it appends the frames after the
\* tracked one, in order, when there are any, and otherwise writes nothing.
C8_ModeAndEffect ==
  (h.mode # "none" /\ ResolveConfig(tl, h.t0).ok /\ SelectorOutput # <<>>)
    => /\ h.mode = ExpectedMode(SelectorOutput, h.art0, h.tail0)
       /\ (JobDone /\ h.mode = "full") => artifact.data = SelectorOutput
       /\ (JobDone /\ h.mode = "append")
            => artifact.data = h.art0.data \o SeqAfter(SelectorOutput, h.tail0)
       /\ (h.mode = "noop") => FilesUntouched
       /\ (h.mode = "append" /\ apc # "idle")
            => \E k \in 0..Len(SeqAfter(SelectorOutput, h.tail0)) :
                 artifact.data = h.art0.data \o SubSeq(SeqAfter(SelectorOutput, h.tail0), 1, k)

C8_Witness ==
  /\ JobDone /\ h.mode = "append"
  /\ Len(artifact.data) = Len(h.art0.data) + 2
  /\ sidecar = Last(selF)

(***************************************************************************)
(* Properties of the queue and the worker.                                 *)
(***************************************************************************)
\* the rows the workers have fetched and not yet left behind
Held == {r \in jobs : \E w \in Workers : wpc[w] \notin {"poll", "sleep"} /\ wjob[w].id = r.id}

\* C4 as stated: the job a worker has fetched was inserted before every job
\* that is pending, also when they were inserted within the same second.
C4_Original ==
  \A w \in Workers :
    wpc[w] = "picked" => \A r \in Pending : wjob[w].id <= r.id

\* the row a worker is about to delete has the status of a finished job
DeletedWhenFinished ==
  \A w \in Workers : \A r \in jobs :
    (wpc[w] = "delete" /\ r.id = wjob[w].id) => r.status \in {"completed", "failed"}

\* a row that is not pending is in the hands of a worker, on its way to deletion
PickedUpIsProcessed == \A r \in jobs : r.status # "pending" => r \in Held

StatusStep ==
  \A r \in jobs : \A q \in jobs' :
    (q.id = r.id /\ q.status # r.status)
      => <<r.status, q.status>> \in {<<"pending", "running">>,
                                     <<"running", "completed">>,
                                     <<"running", "failed">>}

\* a row leaves the table only by the DeleteJob of the worker that fetched it
DeleteStep ==
  \A r \in jobs :
    (\A q \in jobs' : q.id # r.id)
      => \E w \in Workers : wpc[w] = "delete" /\ wjob[w].id = r.id

C6_Original ==
  \A w \in Workers :
    (wpc[w] = "sleep" /\ ioFails = 0)
      => \A r \in jobs : r.status = "running" => r.life = kills

\* the job bodies that are executing
Executing == {w \in Workers : wpc[w] = "exec"}

WindowOf(name, clock) ==
  IF name.base = "24_hour_"
  THEN [start |-> Instant(name.date * DayLen), end |-> Instant((name.date + 1) * DayLen)]
  ELSE LET window == CASE name.base = "1_week" -> Instant(WeekLen)
                       [] name.base = "1_month" -> Instant(MonthLen)
                       [] name.base = "1_year" -> Instant(YearLen)
       IN [start |-> TimeNow(clock) - window, end |-> TimeNow(clock)]

\* the frames of a store that lie in the window of a name at a clock
Windowed(fs, name, clock) ==
  {f \in fs : /\ Parses(f)
              /\ WindowOf(name, clock).start <= Instant(f)
              /\ Instant(f) < WindowOf(name, clock).end}

\* the ticks of the stride of a name: 0 for a name that takes every frame
StrideOf(name) ==
  CASE name.base = "24_hour_" -> 0
    [] name.base = "1_week" -> HourLen
    [] OTHER -> DayLen

SameCell(f, g, unit) == f \div unit = g \div unit

\* a selector run has happened and selF is its output
Selected == h.mode \notin {"none", "invalid"}

FirstOfEach(W, unit) ==
  SortedSeq({f \in W : \A g \in W : SameCell(f, g, unit) => f <= g})

\* C13: for a first-of-hour (first-of-day) name the selector output is, in
\* chronological order, the earliest windowed frame of each hour (day) that
\* has a frame in the window, and nothing else.
C13_FirstOfHour ==
  (Selected /\ StrideOf(tl) # 0)
    => selF = FirstOfEach(Windowed(h.frames0, tl, h.t0), StrideOf(tl))

C13_Witness ==
  /\ Selected /\ StrideOf(tl) # 0
  /\ Cardinality(Windowed(h.frames0, tl, h.t0)) = 3
  /\ Len(selF) = 2

\* C14 as stated: for a stride name, the frame the tracker names, which
\* an earlier run chose for its hour (day), is in the selector output of a
\* later run whenever its file still exists and its hour (day) still has a
\* representative in that output.
C14_Original ==
  (/\ Selected /\ StrideOf(tl) # 0
   /\ h.tail0 # EmptyPath /\ h.tail0 \in h.frames0
   /\ \E g \in Range(selF) : SameCell(g, h.tail0, StrideOf(tl)))
    => h.tail0 \in Range(selF)

Expired(f) == f # MalformedFile /\ Instant(f) < TimeNow(sw.at) - Instant(RetentionLen)

Newest(arch) ==
  {v \in arch : Cardinality({u \in arch : u.key > v.key}) < VideoArchivesToKeep}

\* C17 as stated: after the sweep of the videos every static name has at most
\* VideoArchivesToKeep archives, and they are the newest of those it had.
C17_Original ==
  (sw.op = "videos" /\ sw.aborted # "panic")
    => \A b \in StaticBases :
         /\ Cardinality(ArchivesOf(dataDir, b)) <= VideoArchivesToKeep
         /\ ArchivesOf(dataDir, b) = Newest(ArchivesOf(sw.before, b))

\* C17 as amended: after a sweep of the videos that could list the directory,
\* every static name keeps the newest VideoArchivesToKeep of its archives
\* (all of them when there are no more), and an older archive is still there
\* only when its removal failed or the directory could not be listed for
\* that name; a sweep that could not list the directory removes nothing.
C17_ArchivesSwept ==
  /\ (sw.op = "videos" /\ sw.aborted = "no")
       => \A b \in StaticBases :
            /\ ArchivesOf(dataDir, b) \subseteq ArchivesOf(sw.before, b)
            /\ Newest(ArchivesOf(sw.before, b)) \subseteq ArchivesOf(dataDir, b)
            /\ (b \notin sw.skipped)
                 => (ArchivesOf(dataDir, b) \ Newest(ArchivesOf(sw.before, b)))
                      \subseteq sw.failed
            /\ (b \in sw.skipped) => ArchivesOf(dataDir, b) = ArchivesOf(sw.before, b)
  /\ (sw.op = "videos" /\ sw.aborted = "read") => dataDir = sw.before

C17_Witness ==
  /\ sw.op = "videos" /\ sw.aborted = "no" /\ sw.failed = {} /\ sw.skipped = {}
  /\ Cardinality(ArchivesOf(sw.before, "1_week")) = MaxArchives
  /\ ArchivesOf(dataDir, "1_week") = {Archive("1_week", MaxArchives)}
  /\ Cardinality(ArchivesOf(sw.before, "1_month")) = VideoArchivesToKeep
  /\ ArchivesOf(dataDir, "1_month") = ArchivesOf(sw.before, "1_month")

\* C18 as stated: when no removal and no listing has failed, the sweep of the
\* videos has removed, of the per-day videos it found, exactly those dated
\* before the day DaysOf24HourSnapshots days ago.
C18_Original ==
  (sw.op = "videos" /\ ioFails = 0)
    => \A v \in sw.before :
         v.kind = "daily"
           => (v \notin dataDir <=> v.key < (sw.at \div DayLen) - DaysOf24HourSnapshots)

\* the horizon the statement gives the gallery a setting of its own for
GalleryRetentionLen == 1

\* C19 as stated: when no removal has failed, the sweep of the gallery has
\* removed, of the slots it found, exactly those whose name parses and whose
\* hour is before the horizon of the gallery retention setting.
C19_Original ==
  (sw.op = "gallery" /\ ioFails = 0)
    => \A g \in sw.before :
         g \notin gallery
           <=> (g # MalformedSlot
                /\ Instant(g * HourLen) < TimeNow(sw.at) - Instant(GalleryRetentionLen))

\* C20 as stated: no sweep panics on a file name, and after a sweep every
\* file with a malformed name is still there.
C20_Original ==
  /\ sw.aborted # "panic"
  /\ (sw.op = "frames" /\ MalformedFile \in sw.before) => MalformedFile \in frames
  /\ (sw.op = "gallery" /\ MalformedSlot \in sw.before) => MalformedSlot \in gallery
  /\ (sw.op = "videos")
       => \A v \in sw.before : v.kind \in {"undated", "short"} => v \in dataDir

(***************************************************************************)
(* The capture task: gallery slots and latest_snapshot.jpg.                *)
(***************************************************************************)
Hours == 0..(MaxTime \div HourLen)

\* the frames of the store that were written to the end, by hour
StoredIn(hr) == {f \in frames \ trunc : f \div HourLen = hr}

Earliest(S) == CHOOSE f \in S : \A g \in S : f <= g

\* C21 as stated: for every hour in which a frame was captured the gallery
\* slot of the hour exists and holds the bytes of the earliest frame of the
\* hour.
C21_Original ==
  \A hr \in Hours :
    StoredIn(hr) # {} =>
      /\ hr \in gallery
      /\ slotData[hr] = FrameBytes(Earliest(StoredIn(hr)))

\* the frame of the store captured last, of those written to the end
NewestStored == CHOOSE f \in frames \ trunc : \A g \in frames \ trunc : g <= f

Skipped == {"unconfigured", "error", "status"}

\* C23: a run of TakeSnapshot without credentials, or whose request fails or
\* is answered with a status other than 200, creates no frame file, writes no
\* gallery slot and leaves latest_snapshot.jpg as it was; after it the loop
\* can run TakeSnapshot again.
C23_SkippedTickChangesNothing ==
  /\ [][(TakeSnapshot /\ cap'.outcome \in Skipped)
          => UNCHANGED <<frames, trunc, gallery, slotData, latest>>]_vars
  /\ [](cap.outcome \in Skipped => ENABLED TakeSnapshot)

\* a request has failed after a frame had been stored
C23_Witness ==
  /\ cap.outcome \in {"error", "status"}
  /\ frames # {}
  /\ cap.at \notin frames
  /\ latest = Image(NewestStored)

(***************************************************************************)
(* Failing steps of the assemble job.                                      *)
(***************************************************************************)
\* C24 as stated: a job in which a step failed has ended with an error, and
\* after a job that ended with an error the canonical video is a complete
\* video that is there when the job found one, and the tracker is as the job
\* found it or names a frame the video holds.
C24_Original ==
  (apc = "idle" /\ h.mode # "none" /\ kills = 0)
    => /\ h.lost => h.result = "err"
       /\ (h.result = "err")
            => /\ FileExists(h.art0) => (FileExists(artifact) /\ artifact.complete)
               /\ FileExists(artifact) => artifact.complete
               /\ sidecar = h.tail0 \/ sidecar \in Range(artifact.data)

(***************************************************************************)
(* What one run of EnqueueTimelapseJobs inserts.                           *)
(***************************************************************************)
\* one assemble job for each of the last DaysOf24HourSnapshots days up to a
\* day, one for each static name, one for each sweep that has a job type
ExpectedJobs(day) ==
  [i \in 1..DaysOf24HourSnapshots |->
     [job_type |-> "generate_timelapse", payload |-> DailyName(day - (i - 1))]]
  \o << [job_type |-> "generate_timelapse", payload |-> StaticName("1_week")],
        [job_type |-> "generate_timelapse", payload |-> StaticName("1_month")],
        [job_type |-> "generate_timelapse", payload |-> StaticName("1_year")],
        [job_type |-> "cleanup_snapshots", payload |-> NullPayload],
        [job_type |-> "cleanup_videos", payload |-> NullPayload],
        [job_type |-> "cleanup_logs", payload |-> NullPayload],
        [job_type |-> "cleanup_gallery", payload |-> NullPayload] >>

\* a run that has gone through its list
RunOver(e) == epos[e] = 0 /\ calls[e] # <<>>

CallsInOrder ==
  \A e \in Enqueuers :
    /\ \E day \in 0..(now \div DayLen) :
         /\ Len(calls[e]) <= Len(ExpectedJobs(day))
         /\ \A i \in 1..Len(calls[e]) :
              /\ calls[e][i].job_type = ExpectedJobs(day)[i].job_type
              /\ calls[e][i].payload = ExpectedJobs(day)[i].payload
    /\ epos[e] > 0 => Len(calls[e]) = epos[e] - 1
    /\ RunOver(e) => Len(calls[e]) = Len(ExpectedJobs(0))

\* the rows a step adds to the table
Inserted == {r \in jobs' : \A q \in jobs : q.id # r.id}

\* the call of jobs.CreateJob a step makes, if any
Called(e) == calls'[e] # calls[e] /\ calls'[e] # <<>>

Bad(j) ==
  \/ j.job_type \notin {"generate_timelapse", "cleanup_snapshots", "cleanup_videos"}
  \/ j.job_type = "generate_timelapse" /\ j.payload = InvalidPayload

\* the row of the job a worker holds
RowOf(w) == {r \in jobs : r.id = wjob[w].id}

WorkerStep(w) ==
  \/ GetPendingJob(w)
  \/ Sleep(w)
  \/ MarkRunning(w)
  \/ RunJob(w)
  \/ MarkFinished(w)
  \/ DeleteJob(w)

LiveRows(rows, token, clock) ==
  {r \in rows : r.token = token /\ ~(ParseTime(r.expires_at) < TimeNow(clock))}

\* the tokens made with a duration of zero or less
Unlimited == {m \in minted : m.duration <= 0}

\* C27: GET /public/:token resolves the token to the stored path exactly
\* when the table holds a row for the token whose expires_at is not before
\* now, and to nothing otherwise, and then answers 404; a token made with a
\* duration of zero or less has a row that expires 100 years after it was
\* made, and resolves to its path at every later moment.
C27_ResolveAndUnlimited ==
  /\ served.handler = "public" =>
       LET live == LiveRows(served.rows, served.token, served.at)
       IN /\ live # {} => \A r \in live : served.filePath = r.file_path
          /\ live = {} => served.filePath = NoPath /\ served.status = 404
  /\ \A m \in Unlimited :
       /\ \E r \in links :
            /\ r.token = m.token
            /\ ParseTime(r.expires_at) = TimeNow(m.at) + Instant(HundredYears)
       /\ GetSharedFilePath(links, m.token, now) = m.file_path

\* a token of a row that is still in the table but has expired was asked
\* for and was answered 404
C27_Witness ==
  /\ served.handler = "public"
  /\ served.status = 404
  /\ \E r \in served.rows : r.token = served.token /\ ParseTime(r.expires_at) < TimeNow(served.at)
  /\ \E m \in minted : m.token = served.token /\ m.duration > 0

\* the rows of a table whose expiry is before the instant of clock
ExpiredRows(rows, clock) == {r \in rows : ParseTime(r.expires_at) < TimeNow(clock)}

\* C28 as stated: a run of the share sweep deletes exactly the rows whose
\* expires_at is before now, and no token resolves to something else after
\* the run than before it.
C28_Original ==
  [][DeleteExpiredShareLinks =>
       /\ links' = links \ ExpiredRows(links, now)
       /\ \A token \in 0..MaxLinks :
            GetSharedFilePath(links', token, now) = GetSharedFilePath(links, token, now)]_vars

(***************************************************************************)
(* Share links: which file the public endpoint sends.                      *)
(***************************************************************************)
\* p is dir or lies below it
Within(p, dir) ==
  /\ p.abs /\ dir.abs
  /\ Len(dir.parts) <= Len(p.parts)
  /\ SubSeq(p.parts, 1, Len(dir.parts)) = dir.parts

\* where a stored path points: a relative one is read from the data directory
Canonical(filePath) ==
  IF filePath.abs THEN Clean(filePath) ELSE Join(Abs(shareCfg.DataDir), filePath)

\* C29 as stated: the public endpoint sends no file from outside the data
\* directory, and a token whose stored path canonicalizes outside the data
\* directory is answered without a file.
C29_Original ==
  (served.handler = "public" /\ served.filePath # NoPath) =>
    /\ served.status = 200 => Within(served.file, Abs(shareCfg.DataDir))
    /\ ~Within(Canonical(served.filePath), Abs(shareCfg.DataDir)) => served.status # 200

\* C29, amended: the public endpoint sends no file from outside the data
\* directory, because the path it hands to c.File is the data directory
\* joined with the last element of the stored path, whatever directory the
\* stored path names; it answers 403 for no path POST /share has stored.
\* POST /share answers 403 exactly when the data directory joined with the
\* last element of filePath does not begin with the text of DataDir: the
\* last element is "..", or DataDir is a relative path.
C29_ServesBaseNameInDataDir ==
  /\ (served.handler = "public" /\ served.filePath # NoPath) =>
       /\ served.status # 403
       /\ served.status = 200 =>
            /\ Within(served.file, Abs(shareCfg.DataDir))
            /\ served.file = Path(TRUE, Abs(shareCfg.DataDir).parts \o Base(served.filePath).parts)
            /\ served.file \in Files
  /\ (served.handler = "share" /\ served.filePath # NoPath) =>
       (served.status = 403 <=>
          \/ ~shareCfg.DataDir.abs
          \/ Base(served.filePath).parts = <<"..">>)

\* the token of a stored path that names another directory was asked for,
\* and the file of that name in the data directory was sent
C29_Witness ==
  /\ served.handler = "public"
  /\ served.status = 200
  /\ ~Within(Canonical(served.filePath), Abs(shareCfg.DataDir))
  /\ Within(served.file, Abs(shareCfg.DataDir))

(***************************************************************************)
(* The route groups: who reaches a handler.                                *)
(***************************************************************************)
\* a JWT of this application that has not expired: signed with the
\* application secret, and with no exp that has passed
ValidUnexpired(token, clock) ==
  /\ token.kind = "jwt"
  /\ token.key = AppKey
  /\ token.exp = NoExp \/ TimeNow(clock) < token.exp

\* C30 as stated: the handler of a route of the authenticated group runs
\* only for a request with a valid, unexpired JWT, and the handler of a route
\* of the admin group only when is_admin of that JWT is true; a request to
\* these groups without such a token is answered 302, a request to the admin
\* group with such a token of a non-admin 403, and neither reaches the
\* handler.
C30_Original ==
  authed.group \in {"authorized", "admin"} =>
    /\ authed.ran => ValidUnexpired(authed.token, authed.at)
    /\ (authed.ran /\ authed.group = "admin") => authed.token.is_admin
    /\ ~ValidUnexpired(authed.token, authed.at) => ~authed.ran /\ authed.status = 302
    /\ (authed.group = "admin" /\ ValidUnexpired(authed.token, authed.at) /\ ~authed.token.is_admin)
         => ~authed.ran /\ authed.status = 403

(***************************************************************************)
(* The append loop and the replacement of the video under failing steps.   *)
(***************************************************************************)
\* a step of the running append job has failed: an encoder, the rename, or
\* a write of the tracker
StepFailed == h.mode = "append" /\ (h.result = "err" \/ h.lost)

\* C31 as stated: once a step of an incremental append has failed, be it the
\* segment encoder, the concatenation, the rename over the video or the write
\* of the tracker, the job is over and has not completed: it appends no
\* further frame and does not return nil.
C31_Original ==
  StepFailed => /\ apc = "idle"
                /\ h.result \in {"err", "killed"}

\* the job that ran last, or runs, is a full regeneration that found a video
RegenOfExisting == h.mode = "full" /\ FileExists(h.art0)

\* C32 as stated: from the start of a full regeneration that found a video,
\* at every step of it and after it has ended, failed or been killed, the
\* canonical name holds a complete video, which is the one the job found or
\* its replacement, and once it is replaced the one the job found is among
\* the archives.
C32_Original ==
  RegenOfExisting =>
    /\ FileExists(artifact) /\ artifact.complete
    /\ \/ artifact = h.art0
       \/ \E a \in archives \ h.arch0 : a.data = h.art0.data

(***************************************************************************)
(* The scheduler's jobs at the worker.                                     *)
(***************************************************************************)
\* the function that does the work of a job type
Corresponding(job_type) ==
  CASE job_type = "generate_timelapse" -> "GenerateSingleTimelapse"
    [] job_type = "cleanup_snapshots" -> "CleanupSnapshots"
    [] job_type = "cleanup_videos" -> "CleanOldVideos"
    [] job_type = "cleanup_logs" -> "CleanupLogFiles"
    [] job_type = "cleanup_gallery" -> "CleanupGallery"
    [] OTHER -> "none"

\* the job types EnqueueTimelapseJobs creates
Enqueued == {JobList(now)[i].job_type : i \in 1..Len(JobList(now))}

\* C33 as stated: when the worker has run the body of a job of a type the
\* scheduler enqueues, it has called the assembler or the sweeper of that
\* type, and the job has not got the error of an unknown job type.
C33_Original ==
  \A w \in Workers :
    (wpc[w] \in {"finish", "delete"} /\ wjob[w].job_type \in Enqueued)
      => /\ wjob[w].ran = Corresponding(wjob[w].job_type)
         /\ wjob[w].job_type \in {"cleanup_logs", "cleanup_gallery"} => ~wjob[w].err

(***************************************************************************)
(* Run Status.                                                             *)
(***************************************************************************)
\* the worker is between the dispatch of a job and the return of its body
Processing(w) == wpc[w] \in {"exec", "finish"}

\* C34 as stated: while the worker processes a job IsRunning is true and
\* CurrentlyGenerating names the timelapse of an assemble job; while it
\* processes none IsRunning is false, and once it has completed a job
\* LastRun is set.
C34_Original ==
  \A w \in Workers :
    /\ Processing(w) =>
         /\ VideoStatusData.IsRunning
         /\ wjob[w].job_type = "generate_timelapse"
              => VideoStatusData.CurrentlyGenerating = wjob[w].payload
    /\ ~Processing(w) => ~VideoStatusData.IsRunning
    /\ wpc[w] = "delete" => VideoStatusData.LastRun # NoTime

(***************************************************************************)
(* Rolling timelapses: what the video holds once the window has moved.     *)
(***************************************************************************)
Rolling == tl.base \in {"1_week", "1_month", "1_year"}

\* the frames of the video that lie outside the window of the run
SlidOut == Range(artifact.data) \ Windowed(Range(artifact.data), tl, h.t0)

IsPrefix(s, t) == Len(s) <= Len(t) /\ SubSeq(t, 1, Len(s)) = s

\* C35 as stated: after a run for a rolling timelapse that ended well, with no
\* kill and no failed step so far, the video holds exactly the frames of the
\* selector output of the run, so no frame that lies outside the window.
C35_Original ==
  (Rolling /\ JobDone /\ h.mode \in {"full", "append", "noop"} /\ kills = 0 /\ ioFails = 0)
    => /\ artifact.data = SelectorOutput
       /\ SlidOut = {}

\* C35: a run for a rolling timelapse that regenerates in full leaves exactly
\* the selector output of the run in the video; a run that appends or writes
\* nothing keeps every frame the video had, in place, and adds only frames of
\* the selector output, so a frame outside the window is one the video had
\* before the run; such a run happens only while the tracked frame is in the
\* selector output.
C35_RollingArtifact ==
  (Rolling /\ JobDone /\ h.mode \in {"full", "append", "noop"})
    => /\ h.mode = "full" => (artifact.data = SelectorOutput /\ SlidOut = {})
       /\ h.mode \in {"append", "noop"}
            => /\ IsPrefix(h.art0.data, artifact.data)
               /\ Range(artifact.data) \ Range(h.art0.data) \subseteq Range(SelectorOutput)
               /\ SlidOut \subseteq Range(h.art0.data)
               /\ h.tail0 \in Range(SelectorOutput)

C35_Witness ==
  /\ Rolling /\ JobDone /\ h.mode \in {"append", "noop"}
  /\ kills = 0 /\ ioFails = 0
  /\ SlidOut # {}

(***************************************************************************)
(* Frames that are being written, or were left partial, and the assembler. *)
(***************************************************************************)
\* the frame file capture has created and not finished writing
BeingWritten == IF cap.outcome = "writing" THEN {cap.at} ELSE {}

\* the frame files a failed body copy left partial
LeftPartial == trunc \ BeingWritten

\* the frame files the encoder run of the next step of the job reads
EncoderInput ==
  CASE apc = "regen_encode" -> Range(selF)
    [] apc = "append_segment" -> {NewSnapshot}
    [] OTHER -> {}

EncoderRuns == EncoderInput # {} /\ h'.enc = h.enc + 1

\* C36 as stated: no encoder run of a job reads a frame file that capture has
\* created and not finished writing, and a frame a failed body copy left
\* partial is never in the video with the tracker at or past it.
C36_Original ==
  /\ [][EncoderRuns => EncoderInput \cap BeingWritten = {}]_vars
  /\ [](\A f \in LeftPartial :
          ~(f \in Range(artifact.data) /\ sidecar # EmptyPath /\ sidecar >= f))

(***************************************************************************)
(* Progress of the queue.                                                  *)
(***************************************************************************)
\* the ids one run of EnqueueTimelapseJobs per goroutine can hand out
JobIds == 1..(MaxEnqueues * Len(JobList(0)))

IsPending(id) == \E r \in jobs : r.id = id /\ r.status = "pending"
Dispatched(id) == \E r \in jobs : r.id = id /\ r.dispatches > 0
Removed(id) == \A r \in jobs : r.id # id

\* C37 as stated: under a worker that keeps running, whose bodies return,
\* every pending job is dispatched and its row leaves the table in the end,
\* whatever fails for the jobs before it.
C37_Original ==
  \A id \in JobIds : IsPending(id) ~> (Removed(id) /\ id < nextId)

(***************************************************************************)
(* Rows of the same job that are pending together.                         *)
(***************************************************************************)
SameJob(r, q) == r.job_type = q.job_type /\ r.payload = q.payload

\* C38 as stated: no two pending rows have the same type and payload, so at
\* most one job is pending for each timelapse and for each kind of sweep.
C38_Original == \A r, q \in Pending : SameJob(r, q) => r = q

(***************************************************************************)
(* The key of the tokens.                                                  *)
(***************************************************************************)
\* C39 as stated: once a request has been served, a token the login issues is
\* signed with APP_KEY, and a token a protected route accepts is one signed
\* with APP_KEY, never one signed with the empty key.
C39_Original ==
  (authed.status # 0)
    => /\ \A u \in Users : GenerateJWT(u, now).key = AppKey
       /\ (authed.ran /\ authed.group # "public")
            => (authed.token.key = AppKey /\ authed.token.key # "")

(***************************************************************************)
(* One generation at a time in the monolithic program.                     *)
(***************************************************************************)
Generating == {g \in Goroutines : gen[g] = "generating"}

\* C40 as stated: at no time are two goroutines inside generateAllTimelapses.
C40_Original == Cardinality(Generating) <= 1

====
